---------------------------- MODULE Spec2Model ----------------------------
(***************************************************************************)
(* The event-driven DDL deployment coordinator of the RAG-with-pgvector    *)
(* CDK application: lifecycle events are matched by EventBridge rules, a   *)
(* detector function sends a message to the RDS DDL queue, the init worker *)
(* (ddlDeployFn) consumes the queue, and the change worker (ddlChangeFn)   *)
(* is invoked by the change-set rule.  Time is counted in minutes, the     *)
(* unit of every Duration the stacks declare.                              *)
(***************************************************************************)
EXTENDS Naturals, Sequences, FiniteSets

\* ------------------------------------------------------------------ bounds
\* Lifecycle events and deployments one behaviour may contain.
MaxEvents == 1
\* Injected faults (fetch/connect errors, invocations that run into their
\* timeout) one behaviour may contain.
MaxFaults == 1
\* The receive count of a message is tracked up to this value (it saturates).
MaxReceives == 2
\* Copies of one detector invocation that at-least-once delivery may produce.
MaxDuplicates == 2
\* Longest load balancer host name, in characters.
MaxHostLen == 3
\* Times the password of the database secret is rotated.
MaxRotations == 2
\* Connections open at the same time.
MaxConnections == 3
\* Requests in progress at the load balancer.
MaxRequests == 3
\* Documents uploaded to the knowledgebase bucket.
MaxDocs == 3
\* App-client calls that deployments make through CloudFormation.
MaxCalls == 3
\* Invocations of the patch workers that are followed.
MaxPatches == 4
\* Messages on the RDS DDL queue at the same time.
MaxQueued == 4

\* ------------------------------------------------------- program constants
\* rdsDdlDetectionQueue.visibilityTimeout, minutes
VisibilityTimeout == 6
\* ddlDeployFn.timeout, minutes
InitTimeout == 3
\* ddlChangeFn.timeout, minutes
ChangeTimeout == 10

\* -------------------------------------------------------- lifecycle events
\* CloudTrail management events as EventBridge sees them.  An event carries
\* the attributes the rules of the stacks filter on.
ServiceOf(name) ==
  CASE name \in {"CreateDBInstance", "DeleteDBInstance"} -> "rds"
    [] name \in {"ExecuteChangeSet", "CreateStack"} -> "cloudformation"
    [] OTHER -> "cognito-idp"

EventNames ==
  {"CreateDBInstance", "DeleteDBInstance", "ExecuteChangeSet", "CreateStack",
   "CreateUserPoolClient", "UpdateUserPoolClient"}

SourceIPs == {"cloudformation.amazonaws.com", "198.51.100.7"}

StackNames == {"ddlSourceStack", "rdsStack"}

MkEvent(name, ip, stack) ==
  [source |-> "aws." \o ServiceOf(name),
   eventSource |-> ServiceOf(name) \o ".amazonaws.com",
   eventName |-> name,
   sourceIPAddress |-> ip,
   stackName |-> IF ServiceOf(name) = "cloudformation" THEN stack ELSE "-"]

\* The calls the model lets happen.  Database and stack calls are made through
\* CloudFormation or by the deploying user; app-client calls by either.
LifecycleEvents ==
  {MkEvent(n, "cloudformation.amazonaws.com", s) :
     n \in {"CreateDBInstance", "DeleteDBInstance"}, s \in StackNames}
  \cup {MkEvent(n, "198.51.100.7", s) :
          n \in {"ExecuteChangeSet", "CreateStack"}, s \in StackNames}
  \cup {MkEvent(n, ip, s) :
          n \in {"CreateUserPoolClient", "UpdateUserPoolClient"},
          ip \in SourceIPs, s \in StackNames}

\* An EventBridge pattern: every declared attribute must take one of the
\* listed values; attributes the pattern does not declare are not looked at.
Matches(pattern, e) == \A f \in DOMAIN pattern : e[f] \in pattern[f]

\* Variant of eventBridgeCreateDBRule that leaves out the eventName filter:
\* every RDS call recorded by the trail would reach the detector.
eventBridgeAnyRdsCallRule ==
  [source |-> {"aws.rds"},
   eventSource |-> {"rds.amazonaws.com"}]

eventBridgeCreateDBRule ==
  [source |-> {"aws.rds"},
   eventSource |-> {"rds.amazonaws.com"},
   eventName |-> {"CreateDBInstance"}]

cfnChangesetRule ==
  [source |-> {"aws.cloudformation"},
   eventSource |-> {"cloudformation.amazonaws.com"},
   eventName |-> {"ExecuteChangeSet"},
   stackName |-> {"ddlSourceStack"}]

\* Variant of appClientCreateRule that matches the calls a user makes
\* instead of those CloudFormation makes.
appClientCreateRuleUserCalls ==
  [source |-> {"aws.cognito-idp"},
   eventSource |-> {"cognito-idp.amazonaws.com"},
   eventName |-> {"CreateUserPoolClient"},
   sourceIPAddress |-> {"198.51.100.7"}]

appClientCreateRule ==
  [source |-> {"aws.cognito-idp"},
   eventSource |-> {"cognito-idp.amazonaws.com"},
   eventName |-> {"CreateUserPoolClient"},
   sourceIPAddress |-> {"cloudformation.amazonaws.com"}]

\* Variant of appClientUpdateRule that matches the calls of any caller.
appClientUpdateRuleAnyCaller ==
  [source |-> {"aws.cognito-idp"},
   eventSource |-> {"cognito-idp.amazonaws.com"},
   eventName |-> {"UpdateUserPoolClient"}]

appClientUpdateRule ==
  [source |-> {"aws.cognito-idp"},
   eventSource |-> {"cognito-idp.amazonaws.com"},
   eventName |-> {"UpdateUserPoolClient"},
   sourceIPAddress |-> {"cloudformation.amazonaws.com"}]

\* The two rules on app-client calls with the function each one targets.
PatchRules ==
  {[rule |-> "appClientCreateRule", pattern |-> appClientCreateRule,
    target |-> "appClientCreateTrigger"],
   [rule |-> "appClientUpdateRule", pattern |-> appClientUpdateRule,
    target |-> "callBackUpdate"]}

PatchTargetsOf(e) == {r.target : r \in {x \in PatchRules : Matches(x.pattern, e)}}

\* No call recorded, nothing to do for the patch workers.
NoPatch == [calls |-> <<>>, made |-> 0, queued |-> 0, updates |-> 0, invocations |-> 0]

\* Variant of Rules in which the change-set rule targets the detector of the
\* queue instead of the change worker.
RulesChangeSetThroughQueue ==
  {[rule |-> "eventBridgeCreateDBRule", pattern |-> eventBridgeCreateDBRule,
    target |-> "rdsDdlTriggerFn"],
   [rule |-> "cfnChangesetRule", pattern |-> cfnChangesetRule,
    target |-> "rdsDdlTriggerFn"],
   [rule |-> "appClientCreateRule", pattern |-> appClientCreateRule,
    target |-> "appClientCreateTrigger"]}

\* The rules of the two stacks with the function each one targets.
Rules ==
  {[rule |-> "eventBridgeCreateDBRule", pattern |-> eventBridgeCreateDBRule,
    target |-> "rdsDdlTriggerFn"],
   [rule |-> "cfnChangesetRule", pattern |-> cfnChangesetRule,
    target |-> "ddlChangeFn"],
   [rule |-> "appClientCreateRule", pattern |-> appClientCreateRule,
    target |-> "appClientCreateTrigger"]}

\* The asynchronous invocations one event causes: one per matching rule.
TargetsOf(e) == {r.target : r \in {x \in Rules : Matches(x.pattern, e)}}

\* ----------------------------------------------------------- DDL documents
\* A statement creates one schema object, with or without an IF NOT EXISTS
\* guard.  Objects are listed in file order.
Objects == <<"vector", "docs">>

Stmt(o, g) == [obj |-> o, guarded |-> g]

\* The document the repository documents: CREATE EXTENSION vector;
ReadmeDDL == <<Stmt("vector", FALSE)>>

DDLDocuments ==
  {<<Stmt(Objects[1], g)>> : g \in BOOLEAN}
  \cup {<<Stmt(Objects[1], g), Stmt(Objects[2], h)>> : g, h \in BOOLEAN}

NoDoc == <<>>

ObjectsOf(doc) == {doc[i].obj : i \in 1..Len(doc)}

\* Variant of ExecStmt in which a statement replaces what exists: executed
\* on an existing object it drops the object.
ExecStmtReplacing(schema, s) ==
  IF s.obj \in schema
    THEN [ok |-> TRUE, schema |-> schema \ {s.obj}]
    ELSE [ok |-> TRUE, schema |-> schema \cup {s.obj}]

\* Executing one statement against a schema (the set of existing objects).
ExecStmt(schema, s) ==
  IF s.obj \in schema
    THEN [ok |-> s.guarded, schema |-> schema]
    ELSE [ok |-> TRUE, schema |-> schema \cup {s.obj}]

\* Applying a document from statement i on: the statements run in order and
\* the first one that fails ends the run, what ran before it stays.
RECURSIVE ApplyFrom(_, _, _)
ApplyFrom(schema, doc, i) ==
  IF i > Len(doc) THEN [ok |-> TRUE, schema |-> schema]
  ELSE IF ~ExecStmt(schema, doc[i]).ok THEN [ok |-> FALSE, schema |-> schema]
  ELSE ApplyFrom(ExecStmt(schema, doc[i]).schema, doc, i + 1)

ApplyDoc(schema, doc) == ApplyFrom(schema, doc, 1)

\* ----------------------------------------------------- callback URL patch
\* A host name is a sequence of characters; load balancer DNS names are
\* issued with upper-case characters in them.
Chars == {"A", "a", "B", "b", "1"}

Hostnames == UNION {[1..n -> Chars] : n \in 1..MaxHostLen}

\* ABC123.elb.amazonaws.com, shortened to the alphabet of the model.
ExampleDnsName == <<"A", "B", "1">>

Lower(c) == CASE c = "A" -> "a" [] c = "B" -> "b" [] OTHER -> c

LowerCase(h) == [i \in 1..Len(h) |-> Lower(h[i])]

\* https://<host>/oauth2/idpresponse
CallbackUrl(h) == <<"https://">> \o h \o <<"/oauth2/idpresponse">>

NoClient == [state |-> "absent", callbackUrls |-> <<>>]

\* Variant of PatchCallbackUrl that stores the DNS name as it was issued.
PatchCallbackUrlAsIssued(c, h) ==
  [c EXCEPT !.callbackUrls = <<CallbackUrl(h)>>]

\* update_user_pool_client with the lower-case DNS name in the callback URL.
PatchCallbackUrl(c, h) ==
  [c EXCEPT !.callbackUrls = <<CallbackUrl(LowerCase(h))>>]

\* --------------------------------------------- environments and permissions
\* The functions and the container that connect to the database.
DbClients == {"ddlDeployFn", "ddlChangeFn", "pgvectorUpdate", "ragApp"}

\* A value of an environment: a literal, or the name, URL or ARN of a
\* resource; "secretValue" would be the content of a secret.
Val(kind, of) == [kind |-> kind, of |-> of]

\* Variant of Environment that hands the init worker the password itself.
EnvironmentWithPassword(fn) ==
  [DB_NAME |-> Val("literal", "postgres"),
   DB_PASSWORD |-> Val("secretValue", "rdsInstance.password")]

\* The environment each database client is deployed with.
Environment(fn) ==
  CASE fn \in {"ddlDeployFn", "ddlChangeFn"} ->
         [DB_NAME |-> Val("literal", "postgres"),
          SQS_QUEUE_URL |-> Val("queueUrl", "rdsDdlDetectionQueue"),
          DDL_SOURCE_BUCKET |-> Val("bucketName", "ddlSourceBucket")]
    [] fn = "pgvectorUpdate" ->
         [API_KEY_SECRET_NAME |-> Val("secretName", "openAiApiKey"),
          DB_CREDS |-> Val("secretArn", "rdsInstance"),
          COLLECTION_NAME |-> Val("literal", "pgvector-collection"),
          QUEUE_URL |-> Val("queueUrl", "pgVectorUpdateQueue"),
          NLTK_DATA |-> Val("literal", "/tmp")]
    [] fn = "ragApp" ->
         [AWS_REGION |-> Val("literal", "region"),
          DB_CREDS |-> Val("secretArn", "rdsInstance"),
          COLLECTION_NAME |-> Val("literal", "pgvector-collection"),
          API_KEY_SECRET_NAME |-> Val("secretName", "openAiApiKey")]

S3Read == {"s3:GetObject", "s3:ListBucket"}

S3Write == {"s3:PutObject", "s3:DeleteObject"}

SecretRead == {"secretsmanager:GetSecretValue", "secretsmanager:DescribeSecret"}

\* Variant of Grants in which the DDL workers may also write to the source.
GrantsReadWrite ==
  {[principal |-> fn, resource |-> "ddlSourceBucket", actions |-> S3Read \cup S3Write] :
     fn \in {"ddlDeployFn", "ddlChangeFn"}}
  \cup {[principal |-> fn, resource |-> "rdsInstance.secret", actions |-> SecretRead] :
          fn \in DbClients}

\* What the stacks allow: grantRead on the source bucket for both DDL
\* workers, SecretsManagerReadWrite for them, and the secret-reading
\* statements of the updater and the application.
Grants ==
  {[principal |-> fn, resource |-> "ddlSourceBucket", actions |-> S3Read] :
     fn \in {"ddlDeployFn", "ddlChangeFn"}}
  \cup {[principal |-> fn, resource |-> "rdsInstance.secret", actions |-> SecretRead] :
          fn \in DbClients}

Allowed(fn, action, resource) ==
  \E g \in Grants :
    g.principal = fn /\ g.resource = resource /\ action \in g.actions

NoCredentials == [username |-> "-", password |-> 0]

NoAccess == [fn |-> "-", action |-> "-", result |-> "-"]

\* ----------------------------------------------------------------- network
\* The hosts of the application and one client on the Internet.
Hosts ==
  {"ddlDeployFn", "ddlChangeFn", "pgvectorUpdate", "ragAppService",
   "ec2JumpHost", "ragAppLb", "rdsInstance", "rdsDdlTriggerFn", "internet"}

\* Where a host is placed: inside the VPC or not, the type of its subnets,
\* whether it has a public address, and its security groups.
Placement(vpc, subnet, public, groups) ==
  [vpc |-> vpc, subnet |-> subnet, publicIp |-> public, securityGroups |-> groups]

\* The test instance: public subnet, public address, the EC2 security group.
ec2JumpHost == Placement(TRUE, "public", TRUE, {"ec2-security-group"})

\* The database: private subnets (the default), no public address.
rdsInstance == Placement(TRUE, "private", FALSE, {"rds-security-group"})

\* The Internet-facing load balancer.
appLoadBalancerPlacement == Placement(TRUE, "public", TRUE, {"alb-sec-group"})

HostConfig(h) ==
  CASE h \in {"ddlDeployFn", "ddlChangeFn", "pgvectorUpdate"} ->
         Placement(TRUE, "private", FALSE, {"lambda-security-group"})
    [] h = "ragAppService" ->
         Placement(TRUE, "private", FALSE, {"ecs-rag-sec-group"})
    [] h = "ec2JumpHost" -> ec2JumpHost
    [] h = "ragAppLb" -> appLoadBalancerPlacement
    [] h = "rdsInstance" -> rdsInstance
    [] OTHER -> Placement(FALSE, "none", TRUE, {})

\* Variant of rdsSecurityGroup that opens the database port to any peer.
rdsSecurityGroupOpen ==
  {[group |-> "rds-security-group", peer |-> "0.0.0.0/0", port |-> 5432]}

\* The ingress rules of the database's security group.
rdsSecurityGroup ==
  {[group |-> "rds-security-group", peer |-> g, port |-> 5432] :
     g \in {"lambda-security-group", "ec2-security-group", "ecs-rag-sec-group"}}

\* The ingress rules of all security groups: the listener is open to the
\* world on 443 and the target group admits the load balancer on 8501.
IngressRules ==
  rdsSecurityGroup
  \cup {[group |-> "alb-sec-group", peer |-> "0.0.0.0/0", port |-> 443],
        [group |-> "ecs-rag-sec-group", peer |-> "alb-sec-group", port |-> 8501]}

\* A packet of src can reach dst: inside the VPC always, from outside only
\* if dst has a public address.
Routable(src, dst) ==
  /\ src # dst
  /\ HostConfig(dst).vpc
  /\ HostConfig(src).vpc \/ HostConfig(dst).publicIp

\* src can open a connection to the port of dst.
CanConnect(src, dst, port) ==
  /\ Routable(src, dst)
  /\ \E r \in IngressRules :
       /\ r.group \in HostConfig(dst).securityGroups
       /\ r.port = port
       /\ r.peer = "0.0.0.0/0" \/ r.peer \in HostConfig(src).securityGroups

\* ---------------------------------------------------------------- listener
RequestIds == 1..MaxRequests

\* Variant of httpsListener whose default action forwards at once.
httpsListenerForwardOnly ==
  [port |-> 443, defaultAction |-> <<"forward">>]

\* The listener of the load balancer: authenticate with Cognito, then
\* forward to the target group.
httpsListener ==
  [port |-> 443, defaultAction |-> <<"authenticate-cognito", "forward">>]

\* addListener is called once.
Listeners == {httpsListener}

NoRequest ==
  [pc |-> "none", port |-> 0, session |-> FALSE, step |-> 0, passed |-> FALSE]

\* ---------------------------------------------------------------- pipeline
Docs == 1..MaxDocs

\* Variant of Notifications without the one of the processed-text bucket.
NotificationsKnowledgeBaseOnly ==
  [knowledgeBase |-> {"pdfProcessorFn"}, processedText |-> {}]

\* The OBJECT_CREATED notifications of the two buckets.
Notifications ==
  [knowledgeBase |-> {"pdfProcessorFn"}, processedText |-> {"pgvectorTrigger"}]

\* Variant of BucketGrants in which the PDF processor may read and write
\* the knowledgebase bucket.
BucketGrantsProcessorReadWrite ==
  {[principal |-> "pdfProcessorFn", resource |-> "knowledgeBase",
    actions |-> S3Read \cup S3Write],
   [principal |-> "pdfProcessorFn", resource |-> "processedText", actions |-> S3Write],
   [principal |-> "pgvectorUpdate", resource |-> "processedText", actions |-> S3Read]}

\* What the functions of the pipeline may do with the two buckets: grantRead
\* and grantWrite for the PDF processor, grantRead for the updater, nothing
\* for the trigger function.
BucketGrants ==
  {[principal |-> "pdfProcessorFn", resource |-> "knowledgeBase", actions |-> S3Read],
   [principal |-> "pdfProcessorFn", resource |-> "processedText", actions |-> S3Write],
   [principal |-> "pgvectorUpdate", resource |-> "processedText", actions |-> S3Read]}

Buckets == {"knowledgeBase", "processedText"}

PipelineFns == {"pdfProcessorFn", "pgvectorTrigger", "pgvectorUpdate"}

MayAccess(fn, action, bucket) ==
  \E g \in BucketGrants :
    g.principal = fn /\ g.resource = bucket /\ action \in g.actions

\* The asynchronous invocations that the creation of object k in a bucket
\* puts in flight.
ObjectCreated(bucket, k) ==
  {[fn |-> f, key |-> k, attempts |-> 0] : f \in Notifications[bucket]}

\* ------------------------------------------------------------- entry point
Unset == "undefined"

\* The values of CDK_DEFAULT_REGION: unset, empty, the supported regions and
\* two others.
Regions == {Unset, "", "us-east-1", "us-west-2", "eu-west-2", "eu-west-1", "US-EAST-1"}

\* The values of the two names: unset, empty or a name.
Names == {Unset, "", "name"}

Environments == [region : Regions, certName : Names, cognitoDomain : Names]

\* Variant of validRegions with one more region.
validRegionsWithIreland == {"us-east-1", "us-west-2", "eu-west-2", "eu-west-1"}

validRegions == {"us-east-1", "us-west-2", "eu-west-2"}

\* process.env.CDK_DEFAULT_REGION || 'us-east-1'
regionPrefix(e) == IF e.region \in {Unset, ""} THEN "us-east-1" ELSE e.region

\* The stacks in the order in which the entry point constructs them.
EntryPoint ==
  <<"BaseInfraStack", "rdsStack", "ddlSourceStack", "ddlAutomationStack",
    "PGVectorUpdateStack", "TestComputeStack", "RagStack">>

\* ------------------------------------------------------ queues and consumers
\* Variant of EventSources in which pgvectorUpdate has the time budget of the
\* PDF processor.
EventSourcesLongUpdate ==
  [RDS_DDL_Detection_Queue |->
     [fn |-> "ddlDeployFn", visibilityTimeout |-> VisibilityTimeout, timeout |-> InitTimeout],
   PGVector_Update_Queue |->
     [fn |-> "pgvectorUpdate", visibilityTimeout |-> 5, timeout |-> 15],
   COG_APP_CLIENT_CREATE_QUEUE |->
     [fn |-> "callBackInit", visibilityTimeout |-> 5, timeout |-> 2]]

\* The queues that have a function attached as event source, with the
\* queue's visibility timeout and the function's timeout, in minutes.
EventSources ==
  [RDS_DDL_Detection_Queue |->
     [fn |-> "ddlDeployFn", visibilityTimeout |-> VisibilityTimeout, timeout |-> InitTimeout],
   PGVector_Update_Queue |->
     [fn |-> "pgvectorUpdate", visibilityTimeout |-> 5, timeout |-> 3],
   COG_APP_CLIENT_CREATE_QUEUE |->
     [fn |-> "callBackInit", visibilityTimeout |-> 5, timeout |-> 2]]

\* A queue without message and a function that is not running.
NoDelivery ==
  [state |-> "none", invis |-> 0, receives |-> 0, running |-> FALSE, elapsed |-> 0]

\* --------------------------------------------------- creation of resources
\* Resources of BaseInfraStack around the user pool client.
StackResources ==
  {"myCloudTrail", "appClientCreateQueue", "appClientCreateTrigger",
   "appClientCreateRule", "appLoadBalancer", "UserPool", "upDomain",
   "WebClient", "default", "httpsListener", "callBackInit", "callBackUpdate",
   "appClientUpdateRule", "rdsDdlDetectionQueue"}

\* What a resource refers to in its properties.
References(r) ==
  CASE r = "appClientCreateTrigger" -> {"appClientCreateQueue"}
    [] r = "appClientCreateRule" -> {"appClientCreateTrigger"}
    [] r = "upDomain" -> {"UserPool"}
    [] r = "WebClient" -> {"UserPool", "appLoadBalancer"}
    [] r = "httpsListener" -> {"appLoadBalancer", "UserPool", "WebClient", "upDomain", "default"}
    [] r = "callBackInit" ->
         {"UserPool", "WebClient", "appLoadBalancer", "appClientCreateQueue"}
    [] r = "callBackUpdate" -> {"UserPool", "WebClient", "appLoadBalancer"}
    [] r = "appClientUpdateRule" -> {"callBackUpdate"}
    [] OTHER -> {}

\* Variant of AddedDependencies without any addDependency call.
AddedDependenciesNone(r) == {}

\* The dependencies declared with node.addDependency.
AddedDependencies(r) ==
  CASE r = "appClientCreateRule" -> {"appClientCreateQueue"}
    [] r = "UserPool" -> {"appClientCreateRule"}
    [] r = "WebClient" -> {"appClientCreateRule"}
    [] OTHER -> {}

DependsOn(r) == References(r) \cup AddedDependencies(r)

\* ------------------------------------------------------ deployment of stacks
\* Variant of StackDependencies in which the automation stack refers to the
\* base stack only.
StackDependenciesBaseOnly(s) ==
  IF s = "BaseInfraStack" THEN {} ELSE {"BaseInfraStack"}

\* The stacks whose resources a stack is given by the entry point: a stack
\* is deployed after them.  ddlSourceStack is given the database instance;
\* whether it refers to it is not known, so no order is taken from it.
StackDependencies(s) ==
  CASE s = "rdsStack" -> {"BaseInfraStack"}
    [] s = "ddlSourceStack" -> {}
    [] s = "ddlAutomationStack" -> {"BaseInfraStack", "rdsStack", "ddlSourceStack"}
    [] s = "PGVectorUpdateStack" -> {"BaseInfraStack", "rdsStack"}
    [] s = "TestComputeStack" -> {"BaseInfraStack"}
    [] s = "RagStack" -> {"BaseInfraStack", "rdsStack"}
    [] OTHER -> {}

\* Nothing deployed: no bucket, no database, no message.
NoRollout ==
  [deployed |-> {}, deploying |-> "-", bucket |-> "absent", pending |-> 0,
   queue |-> 0, processed |-> <<>>]

\* ------------------------------------------------- vector store settings
\* pgvector-collection-<region>-<account>
pgvectorCollectionName(e) == <<"pgvector-collection", regionPrefix(e), "account">>

\* Variant of StackProps in which the application is given the collection
\* name without region and account.
StackPropsPlainName(stack, e) ==
  [collectionName |-> IF stack = "RagStack" THEN <<"pgvector-collection">>
                      ELSE pgvectorCollectionName(e),
   apiKeySecret |-> "openAiApiKey",
   databaseCreds |-> "rdsInstance.secret.secretArn"]

\* What the entry point hands to PGVectorUpdateStack and to RagStack.
StackProps(stack, e) ==
  [collectionName |-> pgvectorCollectionName(e),
   apiKeySecret |-> "openAiApiKey",
   databaseCreds |-> "rdsInstance.secret.secretArn"]

\* The settings in the environment of the function or the container that a
\* stack defines.
Settings(stack, e) ==
  [API_KEY_SECRET_NAME |-> StackProps(stack, e).apiKeySecret,
   DB_CREDS |-> StackProps(stack, e).databaseCreds,
   COLLECTION_NAME |-> StackProps(stack, e).collectionName]

\* ------------------------------------------------- access to the DDL queue
\* The Lambda functions of the stacks.
Functions ==
  {"rdsDdlTriggerFn", "ddlDeployFn", "ddlChangeFn", "pdfProcessorFn",
   "pgvectorTrigger", "pgvectorUpdate", "appClientCreateTrigger",
   "callBackInit", "callBackUpdate"}

SqsSend == {"sqs:SendMessage"}

SqsConsume == {"sqs:ReceiveMessage", "sqs:DeleteMessage", "sqs:ChangeMessageVisibility"}

\* Variant of QueueGrants in which the change worker may send to the queue
\* whose URL it is given.
QueueGrantsChangeSends ==
  {[principal |-> "rdsDdlTriggerFn", resource |-> "RDS_DDL_Detection_Queue",
    actions |-> SqsSend],
   [principal |-> "ddlChangeFn", resource |-> "RDS_DDL_Detection_Queue",
    actions |-> SqsSend],
   [principal |-> "ddlDeployFn", resource |-> "RDS_DDL_Detection_Queue",
    actions |-> SqsConsume]}

\* What the stacks allow on their queues: grantSendMessages for the three
\* detectors, and what addEventSource grants the three consumers.
QueueGrants ==
  {[principal |-> "rdsDdlTriggerFn", resource |-> "RDS_DDL_Detection_Queue",
    actions |-> SqsSend],
   [principal |-> "ddlDeployFn", resource |-> "RDS_DDL_Detection_Queue",
    actions |-> SqsConsume],
   [principal |-> "pgvectorTrigger", resource |-> "PGVector_Update_Queue",
    actions |-> SqsSend],
   [principal |-> "pgvectorUpdate", resource |-> "PGVector_Update_Queue",
    actions |-> SqsConsume],
   [principal |-> "appClientCreateTrigger", resource |-> "COG_APP_CLIENT_CREATE_QUEUE",
    actions |-> SqsSend],
   [principal |-> "callBackInit", resource |-> "COG_APP_CLIENT_CREATE_QUEUE",
    actions |-> SqsConsume]}

MayUseQueue(fn, action, queue) ==
  \E g \in QueueGrants :
    g.principal = fn /\ g.resource = queue /\ action \in g.actions

\* The functions attached to a queue as event source.
EventSourceOf(queue) ==
  {EventSources[q].fn : q \in {x \in DOMAIN EventSources : x = queue}}

\* ------------------------------------------------------------------- state
VARIABLES
  nEvents,                \* lifecycle events and deployments so far
  faults,                 \* injected faults so far
  invocations,            \* asynchronous function invocations not yet started
  rdsDdlDetectionQueue,   \* RDS_DDL_Detection_Queue: message id -> message
  appClientCreationQueue, \* COG_APP_CLIENT_CREATE_QUEUE: messages, by cause
  initInv,                \* ddlDeployFn: message id -> the invocation on it
  changeInv,              \* ddlChangeFn: the current invocation
  ddlSourceBucket,        \* the DDL object of the source bucket
  uploading,              \* document a running BucketDeployment will upload
  schema,                 \* objects that exist in the database
  sends,                  \* SendMessage calls made so far, per queue
  trail,                  \* calls the trail has recorded so far, per kind
  appLoadBalancer,        \* the load balancer: its DNS name as issued
  client,                 \* the user pool client MyAppWebClient
  callBackInit,           \* callBackInit: deployed or not, patches made
  rdsSecret,              \* the generated secret of rdsInstance: user name, password version
  credentials,            \* what each database client last connected with
  s3Access,               \* the last request a DDL worker made to the source bucket
  connections,            \* the TCP connections that are open
  requests,               \* the requests sent to the load balancer
  knowledgeBase,          \* the objects of the knowledgebase bucket
  processedText,          \* the objects of the processed-text bucket
  asyncEvents,            \* the S3 notifications waiting for their function
  pgVectorUpdateQueue,    \* the messages of PGVector_Update_Queue
  pushed,                 \* per document, the messages pushed to the queue
  invoked,                \* the functions invoked so far, with the document
  env,                    \* the environment variables of the process that runs the app entry point
  app,                    \* the position of the app entry point, the stacks it constructed and its error
  consumer,               \* per queue with a consumer, its message and the invocation on it
  created,                \* the resources of BaseInfraStack created so far
  emitted,                \* what became of the client-creation event of the deployment
  patch,                  \* the app-client calls recorded, the work they caused and the patch workers' invocations
  rollout,                \* the stacks deployed so far, the DDL source bucket and the message of the database's creation
  vectorStore,            \* the documents indexed, each with the database and the collection it is in
  retrieved,              \* the documents the application found with its last query
  ddlMessages,            \* the messages on the RDS DDL queue, who sent and who received them
  sqsAccess               \* the last request to the RDS DDL queue and its result

vars ==
  <<nEvents, faults, invocations, rdsDdlDetectionQueue, appClientCreationQueue,
    initInv, changeInv, ddlSourceBucket, uploading, schema, sends, trail,
    appLoadBalancer, client, callBackInit,
    rdsSecret, credentials, s3Access,
    connections,
    requests,
    knowledgeBase, processedText, asyncEvents, pgVectorUpdateQueue, pushed, invoked,
    env, app,
    consumer,
    created, emitted,
    patch,
    rollout,
    vectorStore, retrieved,
    ddlMessages, sqsAccess>>

\* What the trail tells apart: the three calls the detectors exist for.
KindOf(e) ==
  CASE e.eventSource = "rds.amazonaws.com" /\ e.eventName = "CreateDBInstance"
         -> "CreateDBInstance"
    [] e.eventSource = "cloudformation.amazonaws.com"
       /\ e.eventName = "ExecuteChangeSet" /\ e.stackName = "ddlSourceStack"
         -> "ExecuteChangeSet"
    [] e.eventSource = "cognito-idp.amazonaws.com"
       /\ e.eventName = "CreateUserPoolClient"
       /\ e.sourceIPAddress = "cloudformation.amazonaws.com"
         -> "CreateUserPoolClient"
    [] OTHER -> "other"

Kinds == {"CreateDBInstance", "ExecuteChangeSet", "CreateUserPoolClient", "other"}

MsgIds == 1..(IF MaxEvents > MaxDuplicates THEN MaxEvents ELSE MaxDuplicates)

NoEvent == MkEvent("CreateStack", "198.51.100.7", "rdsStack")

NoMsg == [state |-> "none", invis |-> 0, receives |-> 0, cause |-> NoEvent]

\* One invocation of a DDL worker.  pc names the step it is about to take;
\* trigger is the queue message (init path) or 0 (an event, change path);
\* deploy numbers the deployment whose event started it (0: none).
IdleInv ==
  [pc |-> "Idle", elapsed |-> 0, doc |-> NoDoc, ver |-> 0, idx |-> 0,
   err |-> "none", at |-> "none", trigger |-> 0, deploy |-> 0, attempt |-> 0,
   event |-> NoEvent]

StartInv(trig, e, dep, att) ==
  [IdleInv EXCEPT !.pc = "Fetch", !.trigger = trig, !.event = e,
                  !.deploy = dep, !.attempt = att]

Running(w) == w.pc \in {"Fetch", "Connect", "Apply", "Acknowledge"}

Min(a, b) == IF a < b THEN a ELSE b

\* The state before anything has happened, for DDL document d in the source
\* bucket and a load balancer whose DNS name was issued as h.
Resources(d, h) ==
  /\ nEvents = 0
  /\ faults = 0
  /\ invocations = <<>>
  /\ rdsDdlDetectionQueue = [m \in MsgIds |-> NoMsg]
  /\ appClientCreationQueue = <<>>
  /\ initInv = [m \in MsgIds |-> IdleInv]
  /\ changeInv = IdleInv
  /\ ddlSourceBucket = [doc |-> d, version |-> 0]
  /\ uploading = NoDoc
  /\ schema = {}
  /\ sends = [q \in {"rds", "appClient"} |-> 0]
  /\ trail = [k \in Kinds |-> 0]
  /\ appLoadBalancer = [loadBalancerDnsName |-> h]
  /\ client = NoClient
  /\ callBackInit = [deployed |-> FALSE, patches |-> 0]
  /\ rdsSecret = [username |-> "postgres", password |-> 1]
  /\ credentials = [fn \in DbClients |-> NoCredentials]
  /\ s3Access = NoAccess
  /\ connections = {}
  /\ requests = [r \in RequestIds |-> NoRequest]
  /\ knowledgeBase = {}
  /\ processedText = {}
  /\ asyncEvents = {}
  /\ pgVectorUpdateQueue = <<>>
  /\ pushed = [k \in Docs |-> 0]
  /\ invoked = {}
  /\ consumer = [q \in DOMAIN EventSources |-> NoDelivery]
  /\ created = {}
  /\ emitted = "none"
  /\ patch = NoPatch
  /\ rollout = NoRollout
  /\ vectorStore = {}
  /\ retrieved = {}
  /\ ddlMessages = [queued |-> 0, producers |-> {}, consumers |-> {}]
  /\ sqsAccess = NoAccess

\* The state after a deployment that went through.
InitWith(d, h) ==
  /\ Resources(d, h)
  /\ env = [region |-> Unset, certName |-> "name", cognitoDomain |-> "name"]
  /\ app = [pc |-> "synthesized", stacks |-> EntryPoint, error |-> "none"]

Init == \E d \in DDLDocuments : InitWith(d, ExampleDnsName)

\* ------------------------------------------------------ events and rules
\* The invocations EventBridge queues for event e, one per matching rule.
NewInvocations(e, dep) ==
  LET fns == TargetsOf(e)
      one(fn) == IF fn \in fns
                   THEN <<[fn |-> fn, event |-> e, deploy |-> dep, attempt |-> 0]>>
                   ELSE <<>>
  IN one("rdsDdlTriggerFn") \o one("ddlChangeFn") \o one("appClientCreateTrigger")

\* Some API call is recorded by the trail and evaluated against the rules.
PutEvent(e) ==
  /\ nEvents < MaxEvents
  /\ nEvents' = nEvents + 1
  /\ invocations' = invocations \o NewInvocations(e, 0)
  /\ trail' = [trail EXCEPT ![KindOf(e)] = @ + 1]
  /\ UNCHANGED <<faults, rdsDdlDetectionQueue, appClientCreationQueue, initInv,
                 changeInv, ddlSourceBucket, uploading, schema, sends,
                 appLoadBalancer, client, callBackInit,
                 rdsSecret, credentials, s3Access,
                 connections,
                 requests,
                 knowledgeBase, processedText, asyncEvents, pgVectorUpdateQueue, pushed, invoked,
                 env, app,
                 consumer,
                 created, emitted,
                 patch,
                 rollout,
                 vectorStore, retrieved,
                 ddlMessages, sqsAccess>>

\* cdk deploy ddlSourceStack with a changed DDL file: the ExecuteChangeSet
\* call is recorded when the change set starts executing; the
\* BucketDeployment resource uploads the file while it executes.
DeployDDLSourceStack(d) ==
  /\ nEvents < MaxEvents
  /\ uploading = NoDoc
  /\ d # ddlSourceBucket.doc
  /\ nEvents' = nEvents + 1
  /\ uploading' = d
  /\ invocations' = invocations \o
       NewInvocations(MkEvent("ExecuteChangeSet", "198.51.100.7", "ddlSourceStack"),
                      ddlSourceBucket.version + 1)
  /\ trail' = [trail EXCEPT !["ExecuteChangeSet"] = @ + 1]
  /\ UNCHANGED <<faults, rdsDdlDetectionQueue, appClientCreationQueue, initInv,
                 changeInv, ddlSourceBucket, schema, sends,
                 appLoadBalancer, client, callBackInit,
                 rdsSecret, credentials, s3Access,
                 connections,
                 requests,
                 knowledgeBase, processedText, asyncEvents, pgVectorUpdateQueue, pushed, invoked,
                 env, app,
                 consumer,
                 created, emitted,
                 patch,
                 rollout,
                 vectorStore, retrieved,
                 ddlMessages, sqsAccess>>

deployDDLSourceRDS ==
  /\ uploading # NoDoc
  /\ ddlSourceBucket' = [doc |-> uploading, version |-> ddlSourceBucket.version + 1]
  /\ uploading' = NoDoc
  /\ UNCHANGED <<nEvents, faults, invocations, rdsDdlDetectionQueue,
                 appClientCreationQueue, initInv, changeInv, schema, sends, trail,
                 appLoadBalancer, client, callBackInit,
                 rdsSecret, credentials, s3Access,
                 connections,
                 requests,
                 knowledgeBase, processedText, asyncEvents, pgVectorUpdateQueue, pushed, invoked,
                 env, app,
                 consumer,
                 created, emitted,
                 patch,
                 rollout,
                 vectorStore, retrieved,
                 ddlMessages, sqsAccess>>

RemoveAt(s, i) == SubSeq(s, 1, i - 1) \o SubSeq(s, i + 1, Len(s))

FreeIds == {m \in MsgIds : rdsDdlDetectionQueue[m].state = "none"}

\* Messages in the queue plus detector invocations that will send one.
NumMsgsOrPending ==
  Cardinality({m \in MsgIds : rdsDdlDetectionQueue[m].state # "none"})
  + Cardinality({i \in 1..Len(invocations) : invocations[i].fn = "rdsDdlTriggerFn"})

\* The detector of database creation: one SendMessage per invocation.
rdsDdlTriggerFn(i) ==
  /\ invocations[i].fn = "rdsDdlTriggerFn"
  /\ FreeIds # {}
  /\ LET m == CHOOSE x \in FreeIds : \A y \in FreeIds : x <= y
     IN rdsDdlDetectionQueue' =
          [rdsDdlDetectionQueue EXCEPT
             ![m] = [state |-> "visible", invis |-> 0, receives |-> 0,
                     cause |-> invocations[i].event]]
  /\ sends' = [sends EXCEPT !["rds"] = @ + 1]
  /\ invocations' = RemoveAt(invocations, i)
  /\ UNCHANGED <<nEvents, faults, appClientCreationQueue, initInv, changeInv,
                 ddlSourceBucket, uploading, schema, trail,
                 appLoadBalancer, client, callBackInit,
                 rdsSecret, credentials, s3Access,
                 connections,
                 requests,
                 knowledgeBase, processedText, asyncEvents, pgVectorUpdateQueue, pushed, invoked,
                 env, app,
                 consumer,
                 created, emitted,
                 patch,
                 rollout,
                 vectorStore, retrieved,
                 ddlMessages, sqsAccess>>

\* The detector of app-client creation: one SendMessage per invocation.
appClientCreateTriggerFn(i) ==
  /\ invocations[i].fn = "appClientCreateTrigger"
  /\ appClientCreationQueue' = Append(appClientCreationQueue, invocations[i].event)
  /\ sends' = [sends EXCEPT !["appClient"] = @ + 1]
  /\ invocations' = RemoveAt(invocations, i)
  /\ UNCHANGED <<nEvents, faults, rdsDdlDetectionQueue, initInv, changeInv,
                 ddlSourceBucket, uploading, schema, trail,
                 appLoadBalancer, client, callBackInit,
                 rdsSecret, credentials, s3Access,
                 connections,
                 requests,
                 knowledgeBase, processedText, asyncEvents, pgVectorUpdateQueue, pushed, invoked,
                 env, app,
                 consumer,
                 created, emitted,
                 patch,
                 rollout,
                 vectorStore, retrieved,
                 ddlMessages, sqsAccess>>

\* ------------------------------------------------------------ DDL worker
\* The handler of both DDL workers, one step at a time:
\* Fetch, Connect, Apply (statement by statement), Acknowledge.
Failed(w, e) ==
  [IdleInv EXCEPT !.pc = "Failed", !.err = e, !.at = w.pc,
                  !.trigger = w.trigger, !.attempt = w.attempt]

Fetch(w, bucket) ==
  [w EXCEPT !.pc = "Connect", !.doc = bucket.doc, !.ver = bucket.version]

Connect(w) == [w EXCEPT !.pc = "Apply", !.idx = 1]

\* Variant of Apply that goes on with the next statement after a failure.
ApplyContinuing(w, sch) ==
  [w EXCEPT !.idx = @ + 1,
            !.pc = IF w.idx = Len(w.doc) THEN "Acknowledge" ELSE "Apply"]

Apply(w, sch) ==
  IF ExecStmt(sch, w.doc[w.idx]).ok
    THEN [w EXCEPT !.idx = @ + 1,
                   !.pc = IF w.idx = Len(w.doc) THEN "Acknowledge" ELSE "Apply"]
    ELSE Failed(w, "StatementError")

Acknowledge(w) ==
  [IdleInv EXCEPT !.pc = "Done", !.trigger = w.trigger, !.attempt = w.attempt]

\* What one step of the handler can lead to: the invocation after it, the
\* schema after it and whether a fault was injected.
HandlerStep(w, sch, bucket, mayFail) ==
  CASE w.pc = "Fetch" ->
         {[inv |-> Fetch(w, bucket), schema |-> sch, fault |-> 0]}
         \cup {[inv |-> Failed(w, "FetchError"), schema |-> sch, fault |-> 1] :
                 x \in {y \in {1} : mayFail}}
    [] w.pc = "Connect" ->
         {[inv |-> Connect(w), schema |-> sch, fault |-> 0]}
         \cup {[inv |-> Failed(w, "ConnectError"), schema |-> sch, fault |-> 1] :
                 x \in {y \in {1} : mayFail}}
    [] w.pc = "Apply" ->
         {[inv |-> Apply(w, sch), schema |-> ExecStmt(sch, w.doc[w.idx]).schema,
           fault |-> 0]}
    [] w.pc = "Acknowledge" ->
         {[inv |-> Acknowledge(w), schema |-> sch, fault |-> 0]}
    [] OTHER -> {}

\* Variant of SqsEventSource that deletes the message whenever the invocation
\* has ended, whether it returned normally or failed.
SqsEventSourceDeleteOnEnd(msg, w) ==
  IF w.pc \in {"Done", "Failed"}
    THEN [msg EXCEPT !.state = "deleted", !.invis = 0]
    ELSE msg

\* The SQS event source of ddlDeployFn: the message of an invocation that
\* returned normally is deleted; any other message is left in the queue.
SqsEventSource(msg, w) ==
  IF w.pc = "Done" THEN [msg EXCEPT !.state = "deleted", !.invis = 0] ELSE msg

\* The event source receives a visible message and invokes ddlDeployFn on it.
Receive(m) ==
  /\ rdsDdlDetectionQueue[m].state = "visible"
  /\ rdsDdlDetectionQueue' =
       [rdsDdlDetectionQueue EXCEPT
          ![m] = [@ EXCEPT !.state = "inflight", !.invis = VisibilityTimeout,
                           !.receives = Min(@ + 1, MaxReceives)]]
  /\ initInv' = [initInv EXCEPT
                   ![m] = StartInv(m, rdsDdlDetectionQueue[m].cause, 0, 0)]
  /\ UNCHANGED <<nEvents, faults, invocations, appClientCreationQueue, changeInv,
                 ddlSourceBucket, uploading, schema, sends, trail,
                 appLoadBalancer, client, callBackInit,
                 rdsSecret, credentials, s3Access,
                 connections,
                 requests,
                 knowledgeBase, processedText, asyncEvents, pgVectorUpdateQueue, pushed, invoked,
                 env, app,
                 consumer,
                 created, emitted,
                 patch,
                 rollout,
                 vectorStore, retrieved,
                 ddlMessages, sqsAccess>>

ddlInitDeployFn(m) ==
  /\ Running(initInv[m])
  /\ \E o \in HandlerStep(initInv[m], schema, ddlSourceBucket, faults < MaxFaults) :
       /\ initInv' = [initInv EXCEPT ![m] = o.inv]
       /\ schema' = o.schema
       /\ faults' = faults + o.fault
       /\ rdsDdlDetectionQueue' =
            [rdsDdlDetectionQueue EXCEPT ![m] = SqsEventSource(@, o.inv)]
  /\ UNCHANGED <<nEvents, invocations, appClientCreationQueue, changeInv,
                 ddlSourceBucket, uploading, sends, trail,
                 appLoadBalancer, client, callBackInit,
                 rdsSecret, credentials, s3Access,
                 connections,
                 requests,
                 knowledgeBase, processedText, asyncEvents, pgVectorUpdateQueue, pushed, invoked,
                 env, app,
                 consumer,
                 created, emitted,
                 patch,
                 rollout,
                 vectorStore, retrieved,
                 ddlMessages, sqsAccess>>

\* The Lambda service retries a failed asynchronous invocation.
AsyncRetryAttempts == 2

Retry(w, w2) ==
  IF Running(w) /\ w2.pc = "Failed" /\ w.attempt < AsyncRetryAttempts
    THEN <<[fn |-> "ddlChangeFn", event |-> w.event, deploy |-> w.deploy,
            attempt |-> w.attempt + 1]>>
    ELSE <<>>

\* The change-set rule's target starts: ddlChangeFn is invoked with the event.
InvokeChange(i) ==
  /\ invocations[i].fn = "ddlChangeFn"
  /\ ~Running(changeInv)
  /\ changeInv' = StartInv(0, invocations[i].event, invocations[i].deploy,
                           invocations[i].attempt)
  /\ invocations' = RemoveAt(invocations, i)
  /\ UNCHANGED <<nEvents, faults, rdsDdlDetectionQueue, appClientCreationQueue,
                 initInv, ddlSourceBucket, uploading, schema, sends, trail,
                 appLoadBalancer, client, callBackInit,
                 rdsSecret, credentials, s3Access,
                 connections,
                 requests,
                 knowledgeBase, processedText, asyncEvents, pgVectorUpdateQueue, pushed, invoked,
                 env, app,
                 consumer,
                 created, emitted,
                 patch,
                 rollout,
                 vectorStore, retrieved,
                 ddlMessages, sqsAccess>>

ddlChangeFn ==
  /\ Running(changeInv)
  /\ \E o \in HandlerStep(changeInv, schema, ddlSourceBucket, faults < MaxFaults) :
       /\ changeInv' = o.inv
       /\ schema' = o.schema
       /\ faults' = faults + o.fault
       /\ invocations' = invocations \o Retry(changeInv, o.inv)
  /\ UNCHANGED <<nEvents, rdsDdlDetectionQueue, appClientCreationQueue, initInv,
                 ddlSourceBucket, uploading, sends, trail,
                 appLoadBalancer, client, callBackInit,
                 rdsSecret, credentials, s3Access,
                 connections,
                 requests,
                 knowledgeBase, processedText, asyncEvents, pgVectorUpdateQueue, pushed, invoked,
                 env, app,
                 consumer,
                 created, emitted,
                 patch,
                 rollout,
                 vectorStore, retrieved,
                 ddlMessages, sqsAccess>>

\* ------------------------------------------------------------------- time
\* Variant of TimeoutOf that gives the queue consumer the time budget of the
\* change worker.
TimeoutOfChangeWorker(fn) == ChangeTimeout

TimeoutOf(fn) == IF fn = "ddlDeployFn" THEN InitTimeout ELSE ChangeTimeout

\* Variant of TickInv for a function that is never terminated.
TickInvNoTimeout(w, fn) ==
  IF ~Running(w) THEN w
  ELSE [w EXCEPT !.elapsed = Min(@ + 1, ChangeTimeout)]

\* One more minute of a running invocation: at its timeout it is terminated.
TickInv(w, fn) ==
  IF ~Running(w) THEN w
  ELSE IF w.elapsed + 1 >= TimeoutOf(fn) THEN Failed(w, "Timeout")
  ELSE [w EXCEPT !.elapsed = @ + 1]

\* Variant of TickMsg for a queue whose messages in flight stay hidden.
TickMsgStaysHidden(msg) ==
  IF msg.state # "inflight" \/ msg.invis <= 1 THEN msg
  ELSE [msg EXCEPT !.invis = @ - 1]

\* One more minute of a message in flight: it is visible again when its
\* visibility timeout has run out.
TickMsg(msg) ==
  IF msg.state # "inflight" THEN msg
  ELSE IF msg.invis <= 1 THEN [msg EXCEPT !.state = "visible", !.invis = 0]
  ELSE [msg EXCEPT !.invis = @ - 1]

Expiring(w, fn) == Running(w) /\ w.elapsed + 1 >= TimeoutOf(fn)

NumExpiring ==
  Cardinality({m \in MsgIds : Expiring(initInv[m], "ddlDeployFn")})
  + (IF Expiring(changeInv, "ddlChangeFn") THEN 1 ELSE 0)

Tick ==
  /\ \/ \E m \in MsgIds : Running(initInv[m])
     \/ \E m \in MsgIds : rdsDdlDetectionQueue[m].state = "inflight"
     \/ Running(changeInv)
  /\ faults + NumExpiring <= MaxFaults
  /\ faults' = faults + NumExpiring
  /\ initInv' = [m \in MsgIds |-> TickInv(initInv[m], "ddlDeployFn")]
  /\ changeInv' = TickInv(changeInv, "ddlChangeFn")
  /\ invocations' = invocations \o Retry(changeInv, changeInv')
  /\ rdsDdlDetectionQueue' =
       [m \in MsgIds |-> SqsEventSource(TickMsg(rdsDdlDetectionQueue[m]), initInv'[m])]
  /\ UNCHANGED <<nEvents, appClientCreationQueue, ddlSourceBucket, uploading,
                 schema, sends, trail,
                 appLoadBalancer, client, callBackInit,
                 rdsSecret, credentials, s3Access,
                 connections,
                 requests,
                 knowledgeBase, processedText, asyncEvents, pgVectorUpdateQueue, pushed, invoked,
                 env, app,
                 consumer,
                 created, emitted,
                 patch,
                 rollout,
                 vectorStore, retrieved,
                 ddlMessages, sqsAccess>>

\* ---------------------------------------------------------- specification
Next ==
  \/ \E e \in LifecycleEvents : PutEvent(e)
  \/ \E d \in DDLDocuments : DeployDDLSourceStack(d)
  \/ deployDDLSourceRDS
  \/ \E i \in 1..Len(invocations) : rdsDdlTriggerFn(i)
  \/ \E i \in 1..Len(invocations) : appClientCreateTriggerFn(i)
  \/ \E m \in MsgIds : Receive(m)
  \/ \E m \in MsgIds : ddlInitDeployFn(m)
  \/ \E i \in 1..Len(invocations) : InvokeChange(i)
  \/ ddlChangeFn
  \/ Tick

Spec == Init /\ [][Next]_vars

\* EventBridge delivers an event to a target at least once: the detector of
\* database creation is invoked once more for an event it was invoked for.
DuplicateInvocation(i) ==
  /\ invocations[i].fn = "rdsDdlTriggerFn"
  /\ NumMsgsOrPending < MaxDuplicates
  /\ invocations' = Append(invocations, invocations[i])
  /\ UNCHANGED <<nEvents, faults, rdsDdlDetectionQueue, appClientCreationQueue,
                 initInv, changeInv, ddlSourceBucket, uploading, schema, sends,
                 trail,
                 appLoadBalancer, client, callBackInit,
                 rdsSecret, credentials, s3Access,
                 connections,
                 requests,
                 knowledgeBase, processedText, asyncEvents, pgVectorUpdateQueue, pushed, invoked,
                 env, app,
                 consumer,
                 created, emitted,
                 patch,
                 rollout,
                 vectorStore, retrieved,
                 ddlMessages, sqsAccess>>

\* Duplicate messages for one database and the workers on them, with the
\* steps of the invocations interleaved freely (no time passes).
ConcurrentNext ==
  \/ \E e \in LifecycleEvents : PutEvent(e)
  \/ \E i \in 1..Len(invocations) : DuplicateInvocation(i)
  \/ \E i \in 1..Len(invocations) : rdsDdlTriggerFn(i)
  \/ \E m \in MsgIds : Receive(m)
  \/ \E m \in MsgIds : ddlInitDeployFn(m)

ConcurrentSpec == Init /\ [][ConcurrentNext]_vars

\* ----------------------------------------------------- callback URL patch
\* CloudFormation creates the user pool client with the callback URL built
\* from the load balancer's DNS name; the trail records the call.
WebClient ==
  /\ nEvents < MaxEvents
  /\ client.state = "absent"
  /\ client' = [state |-> "created",
                callbackUrls |-> <<CallbackUrl(appLoadBalancer.loadBalancerDnsName)>>]
  /\ nEvents' = nEvents + 1
  /\ LET e == MkEvent("CreateUserPoolClient", "cloudformation.amazonaws.com", "-")
     IN /\ invocations' = invocations \o NewInvocations(e, 0)
        /\ trail' = [trail EXCEPT ![KindOf(e)] = @ + 1]
  /\ UNCHANGED <<faults, rdsDdlDetectionQueue, appClientCreationQueue, initInv,
                 changeInv, ddlSourceBucket, uploading, schema, sends,
                 appLoadBalancer, callBackInit,
                 rdsSecret, credentials, s3Access,
                 connections,
                 requests,
                 knowledgeBase, processedText, asyncEvents, pgVectorUpdateQueue, pushed, invoked,
                 env, app,
                 consumer,
                 created, emitted,
                 patch,
                 rollout,
                 vectorStore, retrieved,
                 ddlMessages, sqsAccess>>

\* callBackInit and its event source are created once the client exists
\* (its environment refers to the client's id).
DeployCallBackInit ==
  /\ client.state = "created"
  /\ ~callBackInit.deployed
  /\ callBackInit' = [callBackInit EXCEPT !.deployed = TRUE]
  /\ UNCHANGED <<nEvents, faults, invocations, rdsDdlDetectionQueue,
                 appClientCreationQueue, initInv, changeInv, ddlSourceBucket,
                 uploading, schema, sends, trail, appLoadBalancer, client,
                 rdsSecret, credentials, s3Access,
                 connections,
                 requests,
                 knowledgeBase, processedText, asyncEvents, pgVectorUpdateQueue, pushed, invoked,
                 env, app,
                 consumer,
                 created, emitted,
                 patch,
                 rollout,
                 vectorStore, retrieved,
                 ddlMessages, sqsAccess>>

\* callBackInit on the first message of its queue: it patches the client; the
\* message is deleted when it returns normally and stays when it fails, be
\* it before or after the patch.
callBackInitFn ==
  /\ callBackInit.deployed
  /\ appClientCreationQueue # <<>>
  /\ \/ /\ client' = PatchCallbackUrl(client, appLoadBalancer.loadBalancerDnsName)
        /\ callBackInit' = [callBackInit EXCEPT !.patches = @ + 1]
        /\ appClientCreationQueue' = Tail(appClientCreationQueue)
        /\ UNCHANGED faults
     \/ /\ faults < MaxFaults
        /\ faults' = faults + 1
        /\ \/ /\ client' = PatchCallbackUrl(client, appLoadBalancer.loadBalancerDnsName)
              /\ callBackInit' = [callBackInit EXCEPT !.patches = @ + 1]
           \/ UNCHANGED <<client, callBackInit>>
        /\ UNCHANGED appClientCreationQueue
  /\ UNCHANGED <<nEvents, invocations, rdsDdlDetectionQueue, initInv, changeInv,
                 ddlSourceBucket, uploading, schema, sends, trail,
                 appLoadBalancer,
                 rdsSecret, credentials, s3Access,
                 connections,
                 requests,
                 knowledgeBase, processedText, asyncEvents, pgVectorUpdateQueue, pushed, invoked,
                 env, app,
                 consumer,
                 created, emitted,
                 patch,
                 rollout,
                 vectorStore, retrieved,
                 ddlMessages, sqsAccess>>

CallbackInit == \E h \in Hostnames : InitWith(ReadmeDDL, h)

CallbackNext ==
  \/ WebClient
  \/ \E i \in 1..Len(invocations) : appClientCreateTriggerFn(i)
  \/ DeployCallBackInit
  \/ callBackInitFn

CallbackSpec == CallbackInit /\ [][CallbackNext]_vars

CallbackFairSpec ==
  /\ CallbackSpec
  /\ WF_vars(\E i \in 1..Len(invocations) : appClientCreateTriggerFn(i))
  /\ WF_vars(DeployCallBackInit)
  /\ WF_vars(callBackInitFn)

\* --------------------------------------------- environments and permissions
\* The password of the generated secret is replaced by a new one.
RotateSecret ==
  /\ rdsSecret.password <= MaxRotations
  /\ rdsSecret' = [rdsSecret EXCEPT !.password = @ + 1]
  /\ UNCHANGED <<nEvents, faults, invocations, rdsDdlDetectionQueue,
                 appClientCreationQueue, initInv, changeInv, ddlSourceBucket,
                 uploading, schema, sends, trail, appLoadBalancer, client,
                 callBackInit, credentials, s3Access,
                 connections,
                 requests,
                 knowledgeBase, processedText, asyncEvents, pgVectorUpdateQueue, pushed, invoked,
                 env, app,
                 consumer,
                 created, emitted,
                 patch,
                 rollout,
                 vectorStore, retrieved,
                 ddlMessages, sqsAccess>>

\* The Connect step of a database client: it reads the secret and connects
\* with the user name and password it finds there.
ResolveAndConnect(fn) ==
  /\ Allowed(fn, "secretsmanager:GetSecretValue", "rdsInstance.secret")
  /\ credentials' = [credentials EXCEPT ![fn] = rdsSecret]
  /\ UNCHANGED <<nEvents, faults, invocations, rdsDdlDetectionQueue,
                 appClientCreationQueue, initInv, changeInv, ddlSourceBucket,
                 uploading, schema, sends, trail, appLoadBalancer, client,
                 callBackInit, rdsSecret, s3Access,
                 connections,
                 requests,
                 knowledgeBase, processedText, asyncEvents, pgVectorUpdateQueue, pushed, invoked,
                 env, app,
                 consumer,
                 created, emitted,
                 patch,
                 rollout,
                 vectorStore, retrieved,
                 ddlMessages, sqsAccess>>

\* A DDL worker makes a request to the source bucket; a write that is
\* allowed replaces the document.
S3Request(fn, action, d) ==
  /\ LET ok == Allowed(fn, action, "ddlSourceBucket")
     IN /\ s3Access' = [fn |-> fn, action |-> action,
                        result |-> IF ok THEN "OK" ELSE "AccessDenied"]
        /\ ddlSourceBucket' =
             IF ok /\ action \in S3Write
               THEN [doc |-> IF action = "s3:PutObject" THEN d ELSE NoDoc,
                     version |-> ddlSourceBucket.version + 1]
               ELSE ddlSourceBucket
  /\ UNCHANGED <<nEvents, faults, invocations, rdsDdlDetectionQueue,
                 appClientCreationQueue, initInv, changeInv, uploading, schema,
                 sends, trail, appLoadBalancer, client, callBackInit, rdsSecret,
                 credentials,
                 connections,
                 requests,
                 knowledgeBase, processedText, asyncEvents, pgVectorUpdateQueue, pushed, invoked,
                 env, app,
                 consumer,
                 created, emitted,
                 patch,
                 rollout,
                 vectorStore, retrieved,
                 ddlMessages, sqsAccess>>

AccessNext ==
  \/ RotateSecret
  \/ \E fn \in DbClients : ResolveAndConnect(fn)
  \/ \E fn \in {"ddlDeployFn", "ddlChangeFn"}, a \in S3Read \cup S3Write :
       S3Request(fn, a, <<Stmt("docs", TRUE)>>)

AccessSpec == InitWith(ReadmeDDL, ExampleDnsName) /\ [][AccessNext]_vars

\* ----------------------------------------------------------------- network
OpenConnection(src, dst, port) ==
  /\ Cardinality(connections) < MaxConnections
  /\ CanConnect(src, dst, port)
  /\ [src |-> src, dst |-> dst, port |-> port] \notin connections
  /\ connections' = connections \cup {[src |-> src, dst |-> dst, port |-> port]}
  /\ UNCHANGED <<nEvents, faults, invocations, rdsDdlDetectionQueue,
                 appClientCreationQueue, initInv, changeInv, ddlSourceBucket,
                 uploading, schema, sends, trail, appLoadBalancer, client,
                 callBackInit, rdsSecret, credentials, s3Access,
                 requests,
                 knowledgeBase, processedText, asyncEvents, pgVectorUpdateQueue, pushed, invoked,
                 env, app,
                 consumer,
                 created, emitted,
                 patch,
                 rollout,
                 vectorStore, retrieved,
                 ddlMessages, sqsAccess>>

CloseConnection(c) ==
  /\ c \in connections
  /\ connections' = connections \ {c}
  /\ UNCHANGED <<nEvents, faults, invocations, rdsDdlDetectionQueue,
                 appClientCreationQueue, initInv, changeInv, ddlSourceBucket,
                 uploading, schema, sends, trail, appLoadBalancer, client,
                 callBackInit, rdsSecret, credentials, s3Access,
                 requests,
                 knowledgeBase, processedText, asyncEvents, pgVectorUpdateQueue, pushed, invoked,
                 env, app,
                 consumer,
                 created, emitted,
                 patch,
                 rollout,
                 vectorStore, retrieved,
                 ddlMessages, sqsAccess>>

NetworkNext ==
  \/ \E src \in Hosts, dst \in Hosts, port \in {443, 5432, 8501} :
       OpenConnection(src, dst, port)
  \/ \E c \in connections : CloseConnection(c)

NetworkSpec == InitWith(ReadmeDDL, ExampleDnsName) /\ [][NetworkNext]_vars

\* ---------------------------------------------------------------- listener
\* A client on the Internet sends a request to a port of the load balancer,
\* with or without the session cookie of an earlier login.
SendRequest(r, port, session) ==
  /\ requests[r].pc = "none"
  /\ requests' = [requests EXCEPT ![r] =
       IF /\ CanConnect("internet", "ragAppLb", port)
          /\ \E l \in Listeners : l.port = port
       THEN [pc |-> "atListener", port |-> port, session |-> session,
             step |-> 1, passed |-> FALSE]
       ELSE [NoRequest EXCEPT !.pc = "refused", !.port = port]]
  /\ UNCHANGED <<nEvents, faults, invocations, rdsDdlDetectionQueue,
                 appClientCreationQueue, initInv, changeInv, ddlSourceBucket,
                 uploading, schema, sends, trail, appLoadBalancer, client,
                 callBackInit, rdsSecret, credentials, s3Access, connections,
                 knowledgeBase, processedText, asyncEvents, pgVectorUpdateQueue, pushed, invoked,
                 env, app,
                 consumer,
                 created, emitted,
                 patch,
                 rollout,
                 vectorStore, retrieved,
                 ddlMessages, sqsAccess>>

\* The listener runs the next action of its default action chain.
ListenerAction(r) ==
  /\ requests[r].pc = "atListener"
  /\ \E l \in Listeners :
       /\ l.port = requests[r].port
       /\ requests[r].step <= Len(l.defaultAction)
       /\ LET a == l.defaultAction[requests[r].step] IN
          requests' = [requests EXCEPT ![r] =
            CASE a = "authenticate-cognito" /\ requests[r].session ->
                   [@ EXCEPT !.passed = TRUE, !.step = @ + 1]
              [] a = "authenticate-cognito" /\ ~requests[r].session ->
                   [@ EXCEPT !.pc = "login"]
              [] OTHER ->
                   [@ EXCEPT !.pc = "forwarded"]]
  /\ UNCHANGED <<nEvents, faults, invocations, rdsDdlDetectionQueue,
                 appClientCreationQueue, initInv, changeInv, ddlSourceBucket,
                 uploading, schema, sends, trail, appLoadBalancer, client,
                 callBackInit, rdsSecret, credentials, s3Access, connections,
                 knowledgeBase, processedText, asyncEvents, pgVectorUpdateQueue, pushed, invoked,
                 env, app,
                 consumer,
                 created, emitted,
                 patch,
                 rollout,
                 vectorStore, retrieved,
                 ddlMessages, sqsAccess>>

\* The user signs in at the hosted UI: on success the browser comes back
\* to the listener with a session, otherwise the request ends.
Login(r, ok) ==
  /\ requests[r].pc = "login"
  /\ requests' = [requests EXCEPT ![r] =
       IF ok THEN [@ EXCEPT !.pc = "atListener", !.session = TRUE, !.step = 1]
             ELSE [@ EXCEPT !.pc = "rejected"]]
  /\ UNCHANGED <<nEvents, faults, invocations, rdsDdlDetectionQueue,
                 appClientCreationQueue, initInv, changeInv, ddlSourceBucket,
                 uploading, schema, sends, trail, appLoadBalancer, client,
                 callBackInit, rdsSecret, credentials, s3Access, connections,
                 knowledgeBase, processedText, asyncEvents, pgVectorUpdateQueue, pushed, invoked,
                 env, app,
                 consumer,
                 created, emitted,
                 patch,
                 rollout,
                 vectorStore, retrieved,
                 ddlMessages, sqsAccess>>

\* The response is sent and the request is over.
Respond(r) ==
  /\ requests[r].pc \in {"forwarded", "rejected", "refused"}
  /\ requests' = [requests EXCEPT ![r] = NoRequest]
  /\ UNCHANGED <<nEvents, faults, invocations, rdsDdlDetectionQueue,
                 appClientCreationQueue, initInv, changeInv, ddlSourceBucket,
                 uploading, schema, sends, trail, appLoadBalancer, client,
                 callBackInit, rdsSecret, credentials, s3Access, connections,
                 knowledgeBase, processedText, asyncEvents, pgVectorUpdateQueue, pushed, invoked,
                 env, app,
                 consumer,
                 created, emitted,
                 patch,
                 rollout,
                 vectorStore, retrieved,
                 ddlMessages, sqsAccess>>

ListenerNext ==
  \/ \E r \in RequestIds, port \in {80, 443}, session \in BOOLEAN :
       SendRequest(r, port, session)
  \/ \E r \in RequestIds : ListenerAction(r)
  \/ \E r \in RequestIds, ok \in BOOLEAN : Login(r, ok)
  \/ \E r \in RequestIds : Respond(r)

ListenerSpec == InitWith(ReadmeDDL, ExampleDnsName) /\ [][ListenerNext]_vars

\* ---------------------------------------------------------------- pipeline
\* An asynchronous invocation failed: it is tried again, AsyncRetryAttempts
\* times at most, and then discarded.
RetryAsync(e) ==
  IF e.attempts < AsyncRetryAttempts
  THEN (asyncEvents \ {e}) \cup {[e EXCEPT !.attempts = @ + 1]}
  ELSE asyncEvents \ {e}

\* A document lands in the knowledgebase bucket.
PutObject(k) ==
  /\ k \notin knowledgeBase
  /\ knowledgeBase' = knowledgeBase \cup {k}
  /\ asyncEvents' = asyncEvents \cup ObjectCreated("knowledgeBase", k)
  /\ UNCHANGED <<faults, processedText, pgVectorUpdateQueue, pushed, invoked>>
  /\ UNCHANGED <<nEvents, invocations, rdsDdlDetectionQueue,
                 appClientCreationQueue, initInv, changeInv, ddlSourceBucket,
                 uploading, schema, sends, trail, appLoadBalancer, client,
                 callBackInit, rdsSecret, credentials, s3Access, connections,
                 requests,
                 env, app,
                 consumer,
                 created, emitted,
                 patch,
                 rollout,
                 vectorStore, retrieved,
                 ddlMessages, sqsAccess>>

\* The PDF processor reads the document and writes its text to the
\* processed-text bucket, or fails.
pdfProcessorFn(e) ==
  /\ e \in asyncEvents
  /\ e.fn = "pdfProcessorFn"
  /\ invoked' = invoked \cup {<<e.fn, e.key>>}
  /\ \/ /\ processedText' = processedText \cup {e.key}
        /\ asyncEvents' = (asyncEvents \ {e}) \cup ObjectCreated("processedText", e.key)
        /\ UNCHANGED faults
     \/ /\ faults < MaxFaults
        /\ faults' = faults + 1
        /\ asyncEvents' = RetryAsync(e)
        /\ UNCHANGED processedText
  /\ UNCHANGED <<knowledgeBase, pgVectorUpdateQueue, pushed>>
  /\ UNCHANGED <<nEvents, invocations, rdsDdlDetectionQueue,
                 appClientCreationQueue, initInv, changeInv, ddlSourceBucket,
                 uploading, schema, sends, trail, appLoadBalancer, client,
                 callBackInit, rdsSecret, credentials, s3Access, connections,
                 requests,
                 env, app,
                 consumer,
                 created, emitted,
                 patch,
                 rollout,
                 vectorStore, retrieved,
                 ddlMessages, sqsAccess>>

\* The trigger function pushes one message about the text to the queue, or
\* fails.
pgvectorTriggerFn(e) ==
  /\ e \in asyncEvents
  /\ e.fn = "pgvectorTrigger"
  /\ invoked' = invoked \cup {<<e.fn, e.key>>}
  /\ \/ /\ pgVectorUpdateQueue' = Append(pgVectorUpdateQueue, e.key)
        /\ pushed' = [pushed EXCEPT ![e.key] = @ + 1]
        /\ asyncEvents' = asyncEvents \ {e}
        /\ UNCHANGED faults
     \/ /\ faults < MaxFaults
        /\ faults' = faults + 1
        /\ asyncEvents' = RetryAsync(e)
        /\ UNCHANGED <<pgVectorUpdateQueue, pushed>>
  /\ UNCHANGED <<knowledgeBase, processedText>>
  /\ UNCHANGED <<nEvents, invocations, rdsDdlDetectionQueue,
                 appClientCreationQueue, initInv, changeInv, ddlSourceBucket,
                 uploading, schema, sends, trail, appLoadBalancer, client,
                 callBackInit, rdsSecret, credentials, s3Access, connections,
                 requests,
                 env, app,
                 consumer,
                 created, emitted,
                 patch,
                 rollout,
                 vectorStore, retrieved,
                 ddlMessages, sqsAccess>>

\* The event source hands the first message of the queue to the update
\* function: the message is deleted if the function succeeds and stays if
\* it fails.
pgvectorUpdateFn ==
  /\ pgVectorUpdateQueue # <<>>
  /\ invoked' = invoked \cup {<<"pgvectorUpdate", Head(pgVectorUpdateQueue)>>}
  /\ \/ /\ pgVectorUpdateQueue' = Tail(pgVectorUpdateQueue)
        /\ UNCHANGED faults
     \/ /\ faults < MaxFaults
        /\ faults' = faults + 1
        /\ UNCHANGED pgVectorUpdateQueue
  /\ UNCHANGED <<knowledgeBase, processedText, asyncEvents, pushed>>
  /\ UNCHANGED <<nEvents, invocations, rdsDdlDetectionQueue,
                 appClientCreationQueue, initInv, changeInv, ddlSourceBucket,
                 uploading, schema, sends, trail, appLoadBalancer, client,
                 callBackInit, rdsSecret, credentials, s3Access, connections,
                 requests,
                 env, app,
                 consumer,
                 created, emitted,
                 patch,
                 rollout,
                 vectorStore, retrieved,
                 ddlMessages, sqsAccess>>

PipelineNext ==
  \/ \E k \in Docs : PutObject(k)
  \/ \E e \in asyncEvents : pdfProcessorFn(e)
  \/ \E e \in asyncEvents : pgvectorTriggerFn(e)
  \/ pgvectorUpdateFn

PipelineSpec == InitWith(ReadmeDDL, ExampleDnsName) /\ [][PipelineNext]_vars

\* The functions that have something to do run.
PipelineFairSpec ==
  /\ PipelineSpec
  /\ WF_vars(\E e \in asyncEvents : pdfProcessorFn(e))
  /\ WF_vars(\E e \in asyncEvents : pgvectorTriggerFn(e))
  /\ WF_vars(pgvectorUpdateFn)

\* ------------------------------------------------------------- entry point
Throw(message) == [pc |-> "thrown", stacks |-> <<>>, error |-> message]

\* The constructor of BaseInfraStack validates the region.
CheckRegion ==
  /\ app.pc = "region"
  /\ app' = IF regionPrefix(env) \notin validRegions
            THEN Throw("Unsupported CDK_DEFAULT_REGION specified")
            ELSE [app EXCEPT !.pc = "certName"]
  /\ UNCHANGED <<nEvents, faults, invocations, rdsDdlDetectionQueue,
                 appClientCreationQueue, initInv, changeInv, ddlSourceBucket,
                 uploading, schema, sends, trail, appLoadBalancer, client,
                 callBackInit, rdsSecret, credentials, s3Access, connections,
                 requests, knowledgeBase, processedText, asyncEvents,
                 pgVectorUpdateQueue, pushed, invoked, env,
                 consumer,
                 created, emitted,
                 patch,
                 rollout,
                 vectorStore, retrieved,
                 ddlMessages, sqsAccess>>

\* It validates the name of the certificate.
CheckCertName ==
  /\ app.pc = "certName"
  /\ app' = IF env.certName = Unset \/ env.certName = ""
            THEN Throw("Please specify the IAM_SELF_SIGNED_SERVER_CERT_NAME env var")
            ELSE [app EXCEPT !.pc = "cognitoDomain"]
  /\ UNCHANGED <<nEvents, faults, invocations, rdsDdlDetectionQueue,
                 appClientCreationQueue, initInv, changeInv, ddlSourceBucket,
                 uploading, schema, sends, trail, appLoadBalancer, client,
                 callBackInit, rdsSecret, credentials, s3Access, connections,
                 requests, knowledgeBase, processedText, asyncEvents,
                 pgVectorUpdateQueue, pushed, invoked, env,
                 consumer,
                 created, emitted,
                 patch,
                 rollout,
                 vectorStore, retrieved,
                 ddlMessages, sqsAccess>>

\* It validates the Cognito domain; the rest of the constructor defines
\* resources and the stack is constructed.
CheckCognitoDomain ==
  /\ app.pc = "cognitoDomain"
  /\ app' = IF env.cognitoDomain = Unset \/ env.cognitoDomain = ""
            THEN Throw("Please specify the COGNITO_DOMAIN_NAME env var")
            ELSE [app EXCEPT !.pc = "stacks", !.stacks = <<EntryPoint[1]>>]
  /\ UNCHANGED <<nEvents, faults, invocations, rdsDdlDetectionQueue,
                 appClientCreationQueue, initInv, changeInv, ddlSourceBucket,
                 uploading, schema, sends, trail, appLoadBalancer, client,
                 callBackInit, rdsSecret, credentials, s3Access, connections,
                 requests, knowledgeBase, processedText, asyncEvents,
                 pgVectorUpdateQueue, pushed, invoked, env,
                 consumer,
                 created, emitted,
                 patch,
                 rollout,
                 vectorStore, retrieved,
                 ddlMessages, sqsAccess>>

\* The entry point constructs its next stack.
ConstructStack ==
  /\ app.pc = "stacks"
  /\ Len(app.stacks) < Len(EntryPoint)
  /\ app' = [app EXCEPT !.stacks = Append(@, EntryPoint[Len(@) + 1])]
  /\ UNCHANGED <<nEvents, faults, invocations, rdsDdlDetectionQueue,
                 appClientCreationQueue, initInv, changeInv, ddlSourceBucket,
                 uploading, schema, sends, trail, appLoadBalancer, client,
                 callBackInit, rdsSecret, credentials, s3Access, connections,
                 requests, knowledgeBase, processedText, asyncEvents,
                 pgVectorUpdateQueue, pushed, invoked, env,
                 consumer,
                 created, emitted,
                 patch,
                 rollout,
                 vectorStore, retrieved,
                 ddlMessages, sqsAccess>>

\* The entry point is over and the app is synthesized.
Synthesize ==
  /\ app.pc = "stacks"
  /\ Len(app.stacks) = Len(EntryPoint)
  /\ app' = [app EXCEPT !.pc = "synthesized"]
  /\ UNCHANGED <<nEvents, faults, invocations, rdsDdlDetectionQueue,
                 appClientCreationQueue, initInv, changeInv, ddlSourceBucket,
                 uploading, schema, sends, trail, appLoadBalancer, client,
                 callBackInit, rdsSecret, credentials, s3Access, connections,
                 requests, knowledgeBase, processedText, asyncEvents,
                 pgVectorUpdateQueue, pushed, invoked, env,
                 consumer,
                 created, emitted,
                 patch,
                 rollout,
                 vectorStore, retrieved,
                 ddlMessages, sqsAccess>>

EntryInit ==
  /\ Resources(ReadmeDDL, ExampleDnsName)
  /\ env \in Environments
  /\ app = [pc |-> "region", stacks |-> <<>>, error |-> "none"]

EntryNext ==
  \/ CheckRegion
  \/ CheckCertName
  \/ CheckCognitoDomain
  \/ ConstructStack
  \/ Synthesize

EntrySpec == EntryInit /\ [][EntryNext]_vars

\* ------------------------------------------------------ queues and consumers
\* A message is sent to the queue.
SendTo(q) ==
  /\ consumer[q].state \in {"none", "deleted"}
  /\ consumer' = [consumer EXCEPT ![q] = [NoDelivery EXCEPT !.state = "visible"]]
  /\ UNCHANGED <<nEvents, faults, invocations, rdsDdlDetectionQueue,
                 appClientCreationQueue, initInv, changeInv, ddlSourceBucket,
                 uploading, schema, sends, trail, appLoadBalancer, client,
                 callBackInit, rdsSecret, credentials, s3Access, connections,
                 requests, knowledgeBase, processedText, asyncEvents,
                 pgVectorUpdateQueue, pushed, invoked, env, app,
                 created, emitted,
                 patch,
                 rollout,
                 vectorStore, retrieved,
                 ddlMessages, sqsAccess>>

\* The event source receives the visible message and invokes the function.
ReceiveFrom(q) ==
  /\ consumer[q].state = "visible"
  /\ consumer' = [consumer EXCEPT ![q] =
       [@ EXCEPT !.state = "inflight",
                 !.invis = EventSources[q].visibilityTimeout,
                 !.receives = Min(@ + 1, MaxReceives),
                 !.running = TRUE, !.elapsed = 0]]
  /\ UNCHANGED <<nEvents, faults, invocations, rdsDdlDetectionQueue,
                 appClientCreationQueue, initInv, changeInv, ddlSourceBucket,
                 uploading, schema, sends, trail, appLoadBalancer, client,
                 callBackInit, rdsSecret, credentials, s3Access, connections,
                 requests, knowledgeBase, processedText, asyncEvents,
                 pgVectorUpdateQueue, pushed, invoked, env, app,
                 created, emitted,
                 patch,
                 rollout,
                 vectorStore, retrieved,
                 ddlMessages, sqsAccess>>

\* The function returns: the message is deleted if it returned normally and
\* is left in flight otherwise.
ReturnFrom(q, ok) ==
  /\ consumer[q].running
  /\ consumer' = [consumer EXCEPT ![q] =
       [@ EXCEPT !.running = FALSE, !.elapsed = 0,
                 !.state = IF ok /\ @ = "inflight" THEN "deleted" ELSE @,
                 !.invis = IF ok THEN 0 ELSE @]]
  /\ UNCHANGED <<nEvents, faults, invocations, rdsDdlDetectionQueue,
                 appClientCreationQueue, initInv, changeInv, ddlSourceBucket,
                 uploading, schema, sends, trail, appLoadBalancer, client,
                 callBackInit, rdsSecret, credentials, s3Access, connections,
                 requests, knowledgeBase, processedText, asyncEvents,
                 pgVectorUpdateQueue, pushed, invoked, env, app,
                 created, emitted,
                 patch,
                 rollout,
                 vectorStore, retrieved,
                 ddlMessages, sqsAccess>>

\* One more minute for a queue and its function: the function is terminated
\* at its timeout and the message is visible again at its visibility timeout.
Minute(c, q) ==
  LET ended == c.running /\ c.elapsed + 1 >= EventSources[q].timeout
      shown == c.state = "inflight" /\ c.invis <= 1
  IN [c EXCEPT !.running = c.running /\ ~ended,
               !.elapsed = IF c.running /\ ~ended THEN @ + 1 ELSE 0,
               !.state = IF shown THEN "visible" ELSE @,
               !.invis = IF c.state = "inflight" /\ ~shown THEN @ - 1 ELSE 0]

TickConsumers ==
  /\ \E q \in DOMAIN EventSources : consumer[q].state = "inflight"
  /\ consumer' = [q \in DOMAIN EventSources |-> Minute(consumer[q], q)]
  /\ UNCHANGED <<nEvents, faults, invocations, rdsDdlDetectionQueue,
                 appClientCreationQueue, initInv, changeInv, ddlSourceBucket,
                 uploading, schema, sends, trail, appLoadBalancer, client,
                 callBackInit, rdsSecret, credentials, s3Access, connections,
                 requests, knowledgeBase, processedText, asyncEvents,
                 pgVectorUpdateQueue, pushed, invoked, env, app,
                 created, emitted,
                 patch,
                 rollout,
                 vectorStore, retrieved,
                 ddlMessages, sqsAccess>>

ConsumerNext ==
  \/ \E q \in DOMAIN EventSources : SendTo(q)
  \/ \E q \in DOMAIN EventSources : ReceiveFrom(q)
  \/ \E q \in DOMAIN EventSources, ok \in BOOLEAN : ReturnFrom(q, ok)
  \/ TickConsumers

ConsumerSpec == InitWith(ReadmeDDL, ExampleDnsName) /\ [][ConsumerNext]_vars

\* --------------------------------------------------- creation of resources
\* The deployment creates a resource whose dependencies exist; the creation
\* of the client emits the CreateUserPoolClient event, which is detected if
\* the rule exists by then.
CreateResource(r) ==
  /\ r \notin created
  /\ DependsOn(r) \subseteq created
  /\ created' = created \cup {r}
  /\ emitted' = IF r # "WebClient" THEN emitted
                ELSE IF "appClientCreateRule" \in created THEN "detected"
                ELSE "missed"
  /\ UNCHANGED <<nEvents, faults, invocations, rdsDdlDetectionQueue,
                 appClientCreationQueue, initInv, changeInv, ddlSourceBucket,
                 uploading, schema, sends, trail, appLoadBalancer, client,
                 callBackInit, rdsSecret, credentials, s3Access, connections,
                 requests, knowledgeBase, processedText, asyncEvents,
                 pgVectorUpdateQueue, pushed, invoked, env, app, consumer,
                 patch,
                 rollout,
                 vectorStore, retrieved,
                 ddlMessages, sqsAccess>>

CreationNext == \E r \in StackResources : CreateResource(r)

CreationSpec == InitWith(ReadmeDDL, ExampleDnsName) /\ [][CreationNext]_vars

\* ------------------------------------------------------- app-client calls
\* CloudFormation creates or updates the client for a deployment.
CloudFormationCall(name) ==
  /\ patch.made < MaxCalls
  /\ patch' = [patch EXCEPT
       !.made = @ + 1,
       !.calls = Append(@, MkEvent(name, "cloudformation.amazonaws.com", "-"))]
  /\ UNCHANGED <<nEvents, faults, invocations, rdsDdlDetectionQueue,
                 appClientCreationQueue, initInv, changeInv, ddlSourceBucket,
                 uploading, schema, sends, trail, appLoadBalancer, client,
                 callBackInit, rdsSecret, credentials, s3Access, connections,
                 requests, knowledgeBase, processedText, asyncEvents,
                 pgVectorUpdateQueue, pushed, invoked, env, app, consumer,
                 created, emitted,
                 rollout,
                 vectorStore, retrieved,
                 ddlMessages, sqsAccess>>

\* The first recorded call is matched against the rules: a match of the
\* creation rule ends, through appClientCreateTrigger, as a message on the
\* app-client queue, a match of the update rule invokes callBackUpdate.
RouteCall ==
  /\ patch.calls # <<>>
  /\ LET targets == PatchTargetsOf(Head(patch.calls))
     IN patch' = [patch EXCEPT
          !.calls = Tail(@),
          !.queued = @ + (IF "appClientCreateTrigger" \in targets THEN 1 ELSE 0),
          !.updates = @ + (IF "callBackUpdate" \in targets THEN 1 ELSE 0)]
  /\ UNCHANGED <<nEvents, faults, invocations, rdsDdlDetectionQueue,
                 appClientCreationQueue, initInv, changeInv, ddlSourceBucket,
                 uploading, schema, sends, trail, appLoadBalancer, client,
                 callBackInit, rdsSecret, credentials, s3Access, connections,
                 requests, knowledgeBase, processedText, asyncEvents,
                 pgVectorUpdateQueue, pushed, invoked, env, app, consumer,
                 created, emitted,
                 rollout,
                 vectorStore, retrieved,
                 ddlMessages, sqsAccess>>

\* A patch worker runs, callBackInit on a message of the queue or
\* callBackUpdate on an invocation of its rule, and makes its own call to
\* the user pool from its own address.
PatchWorker(fn, name, ip) ==
  /\ patch.invocations < MaxPatches
  /\ IF fn = "callBackInit" THEN patch.queued > 0 ELSE patch.updates > 0
  /\ patch' = [patch EXCEPT
       !.queued = IF fn = "callBackInit" THEN @ - 1 ELSE @,
       !.updates = IF fn = "callBackUpdate" THEN @ - 1 ELSE @,
       !.invocations = @ + 1,
       !.calls = Append(@, MkEvent(name, ip, "-"))]
  /\ UNCHANGED <<nEvents, faults, invocations, rdsDdlDetectionQueue,
                 appClientCreationQueue, initInv, changeInv, ddlSourceBucket,
                 uploading, schema, sends, trail, appLoadBalancer, client,
                 callBackInit, rdsSecret, credentials, s3Access, connections,
                 requests, knowledgeBase, processedText, asyncEvents,
                 pgVectorUpdateQueue, pushed, invoked, env, app, consumer,
                 created, emitted,
                 rollout,
                 vectorStore, retrieved,
                 ddlMessages, sqsAccess>>

PatchNext ==
  \/ \E name \in {"CreateUserPoolClient", "UpdateUserPoolClient"} :
       CloudFormationCall(name)
  \/ RouteCall
  \/ \E fn \in {"callBackInit", "callBackUpdate"},
        name \in {"CreateUserPoolClient", "UpdateUserPoolClient"},
        ip \in SourceIPs \ {"cloudformation.amazonaws.com"} :
       PatchWorker(fn, name, ip)

PatchSpec == InitWith(ReadmeDDL, ExampleDnsName) /\ [][PatchNext]_vars

\* ------------------------------------------------------ deployment of stacks
\* cdk deploy starts on a stack whose dependencies are deployed.
StartDeploy(s) ==
  /\ rollout.deploying = "-"
  /\ s \notin rollout.deployed
  /\ StackDependencies(s) \subseteq rollout.deployed
  /\ rollout' = [rollout EXCEPT !.deploying = s]
  /\ UNCHANGED faults
  /\ UNCHANGED <<nEvents, invocations, rdsDdlDetectionQueue,
                 appClientCreationQueue, initInv, changeInv, ddlSourceBucket,
                 uploading, schema, sends, trail, appLoadBalancer, client,
                 callBackInit, rdsSecret, credentials, s3Access, connections,
                 requests, knowledgeBase, processedText, asyncEvents,
                 pgVectorUpdateQueue, pushed, invoked, env, app, consumer,
                 created, emitted, patch,
                 vectorStore, retrieved,
                 ddlMessages, sqsAccess>>

\* The deployment of a stack goes on: rdsStack creates the database, whose
\* CreateDBInstance call matches the rule of the base stack; ddlSourceStack
\* creates the bucket and then uploads the DDL file into it; any other stack
\* is complete at once.
DeployStep ==
  /\ rollout.deploying # "-"
  /\ rollout' =
       CASE rollout.deploying = "rdsStack" ->
              [rollout EXCEPT
                 !.pending = @ + Cardinality(TargetsOf(
                    MkEvent("CreateDBInstance", "cloudformation.amazonaws.com", "rdsStack"))
                    \cap {"rdsDdlTriggerFn"}),
                 !.deployed = @ \cup {"rdsStack"}, !.deploying = "-"]
         [] rollout.deploying = "ddlSourceStack" /\ rollout.bucket = "absent" ->
              [rollout EXCEPT !.bucket = "empty"]
         [] rollout.deploying = "ddlSourceStack" /\ rollout.bucket = "empty" ->
              [rollout EXCEPT !.bucket = "uploaded",
                 !.deployed = @ \cup {"ddlSourceStack"}, !.deploying = "-"]
         [] OTHER ->
              [rollout EXCEPT !.deployed = @ \cup {rollout.deploying},
                              !.deploying = "-"]
  /\ UNCHANGED faults
  /\ UNCHANGED <<nEvents, invocations, rdsDdlDetectionQueue,
                 appClientCreationQueue, initInv, changeInv, ddlSourceBucket,
                 uploading, schema, sends, trail, appLoadBalancer, client,
                 callBackInit, rdsSecret, credentials, s3Access, connections,
                 requests, knowledgeBase, processedText, asyncEvents,
                 pgVectorUpdateQueue, pushed, invoked, env, app, consumer,
                 created, emitted, patch,
                 vectorStore, retrieved,
                 ddlMessages, sqsAccess>>

\* The detector sends the message of the database's creation.
DetectorSends ==
  /\ rollout.pending > 0
  /\ rollout' = [rollout EXCEPT !.pending = @ - 1, !.queue = @ + 1]
  /\ UNCHANGED faults
  /\ UNCHANGED <<nEvents, invocations, rdsDdlDetectionQueue,
                 appClientCreationQueue, initInv, changeInv, ddlSourceBucket,
                 uploading, schema, sends, trail, appLoadBalancer, client,
                 callBackInit, rdsSecret, credentials, s3Access, connections,
                 requests, knowledgeBase, processedText, asyncEvents,
                 pgVectorUpdateQueue, pushed, invoked, env, app, consumer,
                 created, emitted, patch,
                 vectorStore, retrieved,
                 ddlMessages, sqsAccess>>

\* Once ddlAutomationStack has attached it to the queue, the init worker
\* takes the message and fetches the document from the bucket as it is; the
\* message is deleted if the invocation succeeds.
InitWorkerRuns ==
  /\ "ddlAutomationStack" \in rollout.deployed
  /\ rollout.queue > 0
  /\ \/ /\ rollout' = [rollout EXCEPT !.queue = @ - 1,
                                      !.processed = Append(@, rollout.bucket)]
        /\ UNCHANGED faults
     \/ /\ faults < MaxFaults
        /\ faults' = faults + 1
        /\ rollout' = [rollout EXCEPT !.processed = Append(@, rollout.bucket)]
  /\ UNCHANGED <<nEvents, invocations, rdsDdlDetectionQueue,
                 appClientCreationQueue, initInv, changeInv, ddlSourceBucket,
                 uploading, schema, sends, trail, appLoadBalancer, client,
                 callBackInit, rdsSecret, credentials, s3Access, connections,
                 requests, knowledgeBase, processedText, asyncEvents,
                 pgVectorUpdateQueue, pushed, invoked, env, app, consumer,
                 created, emitted, patch,
                 vectorStore, retrieved,
                 ddlMessages, sqsAccess>>

RolloutNext ==
  \/ \E s \in {EntryPoint[i] : i \in 1..Len(EntryPoint)} : StartDeploy(s)
  \/ DeployStep
  \/ DetectorSends
  \/ InitWorkerRuns

RolloutSpec == InitWith(ReadmeDDL, ExampleDnsName) /\ [][RolloutNext]_vars

\* ------------------------------------------------------ writes of functions
\* Function fn puts object k into a bucket: the request is refused unless
\* the function is granted it, and an object that is created notifies the
\* targets of the bucket.
PutBy(fn, bucket, k) ==
  LET ok == MayAccess(fn, "s3:PutObject", bucket)
  IN [access |-> [fn |-> fn, action |-> "s3:PutObject",
                  result |-> IF ok THEN "OK" ELSE "AccessDenied"],
      knowledgeBase |-> IF ok /\ bucket = "knowledgeBase"
                          THEN knowledgeBase \cup {k} ELSE knowledgeBase,
      processedText |-> IF ok /\ bucket = "processedText"
                          THEN processedText \cup {k} ELSE processedText,
      events |-> IF ok THEN ObjectCreated(bucket, k) ELSE {}]

\* A function invoked by a bucket notification runs and tries to put an
\* object into one of the buckets, whichever its code may choose; the
\* trigger function also pushes its message.
NotifiedFunctionPuts(e, bucket) ==
  /\ e \in asyncEvents
  /\ invoked' = invoked \cup {<<e.fn, e.key>>}
  /\ LET p == PutBy(e.fn, bucket, e.key)
     IN /\ s3Access' = p.access
        /\ knowledgeBase' = p.knowledgeBase
        /\ processedText' = p.processedText
        /\ asyncEvents' = (asyncEvents \ {e}) \cup p.events
  /\ IF e.fn = "pgvectorTrigger"
       THEN /\ pgVectorUpdateQueue' = Append(pgVectorUpdateQueue, e.key)
            /\ pushed' = [pushed EXCEPT ![e.key] = @ + 1]
       ELSE UNCHANGED <<pgVectorUpdateQueue, pushed>>
  /\ UNCHANGED <<nEvents, faults, invocations, rdsDdlDetectionQueue,
                 appClientCreationQueue, initInv, changeInv, ddlSourceBucket,
                 uploading, schema, sends, trail, appLoadBalancer, client,
                 callBackInit, rdsSecret, credentials, connections,
                 requests, env, app, consumer, created, emitted, patch, rollout,
                 vectorStore, retrieved,
                 ddlMessages, sqsAccess>>

\* The updater runs on the first message of the queue and tries to put an
\* object into one of the buckets.
UpdaterPuts(bucket) ==
  /\ pgVectorUpdateQueue # <<>>
  /\ invoked' = invoked \cup {<<"pgvectorUpdate", Head(pgVectorUpdateQueue)>>}
  /\ pgVectorUpdateQueue' = Tail(pgVectorUpdateQueue)
  /\ LET p == PutBy("pgvectorUpdate", bucket, Head(pgVectorUpdateQueue))
     IN /\ s3Access' = p.access
        /\ knowledgeBase' = p.knowledgeBase
        /\ processedText' = p.processedText
        /\ asyncEvents' = asyncEvents \cup p.events
  /\ UNCHANGED pushed
  /\ UNCHANGED <<nEvents, faults, invocations, rdsDdlDetectionQueue,
                 appClientCreationQueue, initInv, changeInv, ddlSourceBucket,
                 uploading, schema, sends, trail, appLoadBalancer, client,
                 callBackInit, rdsSecret, credentials, connections,
                 requests, env, app, consumer, created, emitted, patch, rollout,
                 vectorStore, retrieved,
                 ddlMessages, sqsAccess>>

FeedbackNext ==
  \/ \E k \in Docs : PutObject(k)
  \/ \E e \in asyncEvents, b \in Buckets : NotifiedFunctionPuts(e, b)
  \/ \E b \in Buckets : UpdaterPuts(b)

FeedbackSpec == InitWith(ReadmeDDL, ExampleDnsName) /\ [][FeedbackNext]_vars

\* ------------------------------------------------- vector store settings
\* The updater adds a document to the collection of its settings, in the
\* database of its settings.
IndexDocument(k) ==
  /\ LET u == Settings("PGVectorUpdateStack", env)
     IN /\ [db |-> u.DB_CREDS, collection |-> u.COLLECTION_NAME, doc |-> k]
             \notin vectorStore
        /\ vectorStore' = vectorStore \cup
             {[db |-> u.DB_CREDS, collection |-> u.COLLECTION_NAME, doc |-> k]}
  /\ UNCHANGED retrieved
  /\ UNCHANGED <<nEvents, faults, invocations, rdsDdlDetectionQueue,
                 appClientCreationQueue, initInv, changeInv, ddlSourceBucket,
                 uploading, schema, sends, trail, appLoadBalancer, client,
                 callBackInit, rdsSecret, credentials, s3Access, connections,
                 requests, knowledgeBase, processedText, asyncEvents,
                 pgVectorUpdateQueue, pushed, invoked, env, app, consumer,
                 created, emitted, patch, rollout,
                 ddlMessages, sqsAccess>>

\* The application searches the collection of its settings.
QueryCollection ==
  /\ LET a == Settings("RagStack", env)
     IN retrieved' = {x.doc : x \in {y \in vectorStore :
                        y.db = a.DB_CREDS /\ y.collection = a.COLLECTION_NAME}}
  /\ UNCHANGED vectorStore
  /\ UNCHANGED <<nEvents, faults, invocations, rdsDdlDetectionQueue,
                 appClientCreationQueue, initInv, changeInv, ddlSourceBucket,
                 uploading, schema, sends, trail, appLoadBalancer, client,
                 callBackInit, rdsSecret, credentials, s3Access, connections,
                 requests, knowledgeBase, processedText, asyncEvents,
                 pgVectorUpdateQueue, pushed, invoked, env, app, consumer,
                 created, emitted, patch, rollout,
                 ddlMessages, sqsAccess>>

\* A deployment that went through, in any of the environments that permit it.
VectorInit ==
  /\ Resources(ReadmeDDL, ExampleDnsName)
  /\ env \in {e \in Environments :
                /\ regionPrefix(e) \in validRegions
                /\ e.certName = "name"
                /\ e.cognitoDomain = "name"}
  /\ app = [pc |-> "synthesized", stacks |-> EntryPoint, error |-> "none"]

VectorNext ==
  \/ \E k \in Docs : IndexDocument(k)
  \/ QueryCollection

VectorSpec == VectorInit /\ [][VectorNext]_vars

\* ------------------------------------------------- access to the DDL queue
\* A function asks to send a message to the RDS DDL queue.
SendMessage(fn) ==
  /\ ddlMessages.queued < MaxQueued
  /\ LET ok == MayUseQueue(fn, "sqs:SendMessage", "RDS_DDL_Detection_Queue")
     IN /\ sqsAccess' = [fn |-> fn, action |-> "sqs:SendMessage",
                         result |-> IF ok THEN "OK" ELSE "AccessDenied"]
        /\ ddlMessages' = IF ok
             THEN [ddlMessages EXCEPT !.queued = @ + 1, !.producers = @ \cup {fn}]
             ELSE ddlMessages
  /\ UNCHANGED <<nEvents, faults, invocations, rdsDdlDetectionQueue,
                 appClientCreationQueue, initInv, changeInv, ddlSourceBucket,
                 uploading, schema, sends, trail, appLoadBalancer, client,
                 callBackInit, rdsSecret, credentials, s3Access, connections,
                 requests, knowledgeBase, processedText, asyncEvents,
                 pgVectorUpdateQueue, pushed, invoked, env, app, consumer,
                 created, emitted, patch, rollout, vectorStore, retrieved>>

\* A function asks for a message of the RDS DDL queue, itself or through an
\* event source, and deletes the message it gets.
ReceiveMessage(fn) ==
  /\ ddlMessages.queued > 0
  /\ LET ok == /\ MayUseQueue(fn, "sqs:ReceiveMessage", "RDS_DDL_Detection_Queue")
               /\ MayUseQueue(fn, "sqs:DeleteMessage", "RDS_DDL_Detection_Queue")
     IN /\ sqsAccess' = [fn |-> fn, action |-> "sqs:ReceiveMessage",
                         result |-> IF ok THEN "OK" ELSE "AccessDenied"]
        /\ ddlMessages' = IF ok
             THEN [ddlMessages EXCEPT !.queued = @ - 1, !.consumers = @ \cup {fn}]
             ELSE ddlMessages
  /\ UNCHANGED <<nEvents, faults, invocations, rdsDdlDetectionQueue,
                 appClientCreationQueue, initInv, changeInv, ddlSourceBucket,
                 uploading, schema, sends, trail, appLoadBalancer, client,
                 callBackInit, rdsSecret, credentials, s3Access, connections,
                 requests, knowledgeBase, processedText, asyncEvents,
                 pgVectorUpdateQueue, pushed, invoked, env, app, consumer,
                 created, emitted, patch, rollout, vectorStore, retrieved>>

QueueAccessNext ==
  \/ \E fn \in Functions : SendMessage(fn)
  \/ \E fn \in Functions : ReceiveMessage(fn)

QueueAccessSpec == InitWith(ReadmeDDL, ExampleDnsName) /\ [][QueueAccessNext]_vars

\* The event source polls, the functions run and time passes.
Fairness ==
  /\ WF_vars(Tick)
  /\ WF_vars(deployDDLSourceRDS)
  /\ WF_vars(ddlChangeFn)
  /\ WF_vars(\E i \in 1..Len(invocations) : InvokeChange(i))
  /\ WF_vars(\E i \in 1..Len(invocations) : rdsDdlTriggerFn(i))
  /\ WF_vars(\E i \in 1..Len(invocations) : appClientCreateTriggerFn(i))
  /\ \A m \in MsgIds : WF_vars(Receive(m)) /\ WF_vars(ddlInitDeployFn(m))

FairSpec == Spec /\ Fairness

TypeOK ==
  /\ nEvents \in 0..MaxEvents
  /\ faults \in 0..MaxFaults
  /\ schema \subseteq {Objects[i] : i \in 1..Len(Objects)}
  /\ Len(invocations) <= 3 * MaxEvents
  /\ \A m \in MsgIds : rdsDdlDetectionQueue[m].invis \in 0..VisibilityTimeout

\* ------------------------------------------------------------ properties
Count(fn) ==
  Cardinality({i \in 1..Len(invocations) : invocations[i].fn = fn})

NumMsgs == Cardinality({m \in MsgIds : rdsDdlDetectionQueue[m].state # "none"})

C5_WindowCoversEveryWorker ==
  /\ (\E m \in MsgIds : Running(initInv[m]))
       => TimeoutOf("ddlDeployFn") <= VisibilityTimeout
  /\ Running(changeInv) => TimeoutOf("ddlChangeFn") <= VisibilityTimeout

\* C5 as amended: the visibility window covers the time budget of the worker
\* that consumes the queue (ddlDeployFn), so while an invocation is running
\* on a message that message is in flight and not yet visible again.
C5_WindowCoversQueueConsumer ==
  \A m \in MsgIds :
    Running(initInv[m])
      => /\ rdsDdlDetectionQueue[m].state = "inflight"
         /\ rdsDdlDetectionQueue[m].invis > 0
         /\ initInv[m].elapsed + rdsDdlDetectionQueue[m].invis = VisibilityTimeout
         /\ initInv[m].elapsed < TimeoutOf("ddlDeployFn")

\* An init invocation in the last minute of its budget, its message hidden.
C5_Witness ==
  \E m \in MsgIds :
    /\ Running(initInv[m])
    /\ initInv[m].elapsed = InitTimeout - 1
    /\ rdsDdlDetectionQueue[m].invis = VisibilityTimeout - InitTimeout + 1

\* C6 as stated: DDL is applied only by a worker that received a message
\* from the queue, on the change path as on the init path.
C6_EveryWorkerHoldsAMessage ==
  /\ \A m \in MsgIds :
       Running(initInv[m]) => rdsDdlDetectionQueue[m].state = "inflight"
  /\ Running(changeInv)
       => \E m \in MsgIds : rdsDdlDetectionQueue[m].state = "inflight"

\* C6 as amended: only database creation places a message on the queue and
\* only ddlDeployFn runs on queue messages; a change-set execution on the DDL
\* source stack invokes ddlChangeFn directly, leaves no message, and its
\* failed invocation is retried by the Lambda service (at most twice).
C6_OnlyInitPathUsesQueue ==
  /\ NumMsgs + Count("rdsDdlTriggerFn") = trail["CreateDBInstance"]
  /\ \A m \in MsgIds :
       initInv[m].pc # "Idle"
         => initInv[m].trigger = m /\ rdsDdlDetectionQueue[m].state # "none"
  /\ changeInv.trigger = 0
  /\ changeInv.attempt <= AsyncRetryAttempts
  /\ changeInv.pc # "Idle"
       => trail["ExecuteChangeSet"] > 0
  /\ \A i \in 1..Len(invocations) :
       invocations[i].fn = "ddlChangeFn"
         => invocations[i].attempt <= AsyncRetryAttempts

\* A change invocation failed, was retried and failed again, with no message
\* ever on the queue.
C6_Witness ==
  /\ changeInv.pc = "Failed"
  /\ changeInv.attempt = 1
  /\ NumMsgs = 0
  /\ trail["ExecuteChangeSet"] = 1

\* C7: the invocation a deployment of the DDL source starts works on the
\* document version that deployment uploads (or a later one), never on the
\* version before it, however upload and Fetch interleave.
C7_ChangeWorkerFetchesNewVersion ==
  (changeInv.pc \in {"Connect", "Apply", "Acknowledge"} /\ changeInv.deploy > 0)
    => changeInv.ver >= changeInv.deploy

\* C8 as stated: an invocation that ran into its timeout, on either path,
\* was triggered by a message that is still in the queue to be redelivered.
C8_TimedOutMessageStaysQueued ==
  /\ \A m \in MsgIds :
       initInv[m].err = "Timeout"
         => rdsDdlDetectionQueue[m].state \in {"inflight", "visible"}
  /\ changeInv.err = "Timeout"
       => \E m \in MsgIds :
            rdsDdlDetectionQueue[m].state \in {"inflight", "visible"}

\* C8 as amended: no invocation runs beyond its timeout (3 minutes for
\* ddlDeployFn, 10 for ddlChangeFn).  On the init path the message of a
\* timed-out invocation stays in the queue and is received again by a new
\* invocation.  On the change path there is no message: the timed-out
\* invocation was started by the event, and the Lambda service invokes the
\* function again with that event while retries remain.
C8_TimeoutThenRetry ==
  /\ [](\A m \in MsgIds :
          Running(initInv[m]) => initInv[m].elapsed < InitTimeout)
  /\ [](Running(changeInv) => changeInv.elapsed < ChangeTimeout)
  /\ [](\A m \in MsgIds :
          initInv[m].err = "Timeout"
            => rdsDdlDetectionQueue[m].state \in {"inflight", "visible"})
  /\ \A m \in MsgIds :
       (initInv[m].err = "Timeout")
         ~> (initInv[m].pc = "Fetch" /\ rdsDdlDetectionQueue[m].receives >= 2)
  /\ [](changeInv.err = "Timeout" => changeInv.trigger = 0)
  /\ [][(Running(changeInv) /\ changeInv'.err = "Timeout")
          => /\ Count("ddlChangeFn")' = Count("ddlChangeFn")
                  + (IF changeInv.attempt < AsyncRetryAttempts THEN 1 ELSE 0)
             /\ NumMsgs' = NumMsgs /\ sends' = sends]_vars
  /\ (changeInv.err = "Timeout" /\ changeInv.attempt < AsyncRetryAttempts)
       ~> (changeInv.pc = "Fetch" /\ changeInv.attempt >= 1)

\* A change invocation was terminated at its timeout and its retry is pending.
C8_Witness ==
  /\ changeInv.err = "Timeout"
  /\ Count("ddlChangeFn") = 1
  /\ invocations[1].attempt = 1
  /\ NumMsgs = 0

FailedAtFetch(m) ==
  /\ initInv[m].pc = "Failed"
  /\ initInv[m].at = "Fetch"
  /\ initInv[m].err \in {"Timeout", "FetchError"}

\* C9: the message of an invocation that timed out (or failed) in Fetch is not
\* deleted; while its visibility timeout runs it is hidden and no invocation
\* is started on it; when the timeout has run out it is visible again.
C9_FetchTimeoutMessageReturns ==
  /\ [](\A m \in MsgIds :
          FailedAtFetch(m)
            => /\ rdsDdlDetectionQueue[m].state \in {"inflight", "visible"}
               /\ rdsDdlDetectionQueue[m].state = "inflight"
                    => rdsDdlDetectionQueue[m].invis > 0)
  /\ [][\A m \in MsgIds :
          (FailedAtFetch(m) /\ rdsDdlDetectionQueue[m].state = "inflight")
            => /\ initInv'[m] = initInv[m]
               /\ rdsDdlDetectionQueue'[m].state \in {"inflight", "visible"}
               /\ rdsDdlDetectionQueue'[m].state = "visible"
                    => rdsDdlDetectionQueue[m].invis <= 1]_vars
  /\ \A m \in MsgIds :
       FailedAtFetch(m) ~> (rdsDdlDetectionQueue[m].state = "visible")

\* The Fetch step timed out and the message is visible again.
C9_Witness ==
  \E m \in MsgIds :
    /\ FailedAtFetch(m)
    /\ initInv[m].err = "Timeout"
    /\ rdsDdlDetectionQueue[m].state = "visible"
    /\ rdsDdlDetectionQueue[m].receives = 1

StepOrder ==
  {<<"Fetch", "Connect">>, <<"Connect", "Apply">>, <<"Apply", "Apply">>,
   <<"Apply", "Acknowledge">>, <<"Acknowledge", "Done">>}

\* C10: a message is deleted only by the step that ends an invocation which
\* went through Fetch, Connect and Apply in this order and applied every
\* statement; an invocation that failed (FetchError, ConnectError,
\* StatementError or timeout) leaves its message in the queue.
C10_AckOnlyAfterSuccess ==
  /\ [](\A m \in MsgIds :
          /\ initInv[m].pc = "Failed"
               => rdsDdlDetectionQueue[m].state \in {"inflight", "visible"}
          /\ initInv[m].pc = "Acknowledge"
               => /\ initInv[m].doc # NoDoc
                  /\ initInv[m].idx = Len(initInv[m].doc) + 1
                  /\ ObjectsOf(initInv[m].doc) \subseteq schema
          /\ rdsDdlDetectionQueue[m].state = "deleted" <=> initInv[m].pc = "Done")
  /\ [][\A m \in MsgIds :
          /\ (rdsDdlDetectionQueue'[m].state = "deleted"
              /\ rdsDdlDetectionQueue[m].state # "deleted")
               => initInv[m].pc = "Acknowledge" /\ initInv'[m].pc = "Done"
          /\ (Running(initInv[m]) /\ initInv'[m].pc # initInv[m].pc)
               => \/ <<initInv[m].pc, initInv'[m].pc>> \in StepOrder
                  \/ initInv'[m].pc = "Failed"]_vars

\* A message was deleted after its document was applied in full.
C10_Witness ==
  \E m \in MsgIds :
    /\ rdsDdlDetectionQueue[m].state = "deleted"
    /\ initInv[m].pc = "Done"
    /\ Cardinality(schema) = 2

\* The schema one uninterrupted application of the document to a fresh
\* database leaves.
SingleApplication(doc) == ApplyDoc({}, doc).schema

C2_ApplyTwiceSucceeds ==
  LET first == ApplyDoc({}, ddlSourceBucket.doc)
      second == ApplyDoc(first.schema, ddlSourceBucket.doc)
  IN first.ok /\ second.ok /\ second.schema = first.schema

\* C3: when an invocation is terminated in the middle of Apply, its message is
\* delivered again and the database reaches the schema of an uninterrupted
\* application of the document.
C3_CrashMidApplyConverges ==
  \A m \in MsgIds :
    (initInv[m].err = "Timeout" /\ initInv[m].at = "Apply")
      ~> (schema = SingleApplication(ddlSourceBucket.doc))

\* C11: when invocations on duplicate messages are in their Apply steps at
\* the same time, none of them ends with a StatementError, and once every
\* message is deleted the schema is that of one application of the document.
C11_ConcurrentAppliesSucceed ==
  /\ [][\A m, n \in MsgIds :
          (m # n /\ initInv[m].pc = "Apply" /\ initInv[n].pc = "Apply")
            => initInv'[m].err # "StatementError"]_vars
  /\ []((\A m \in MsgIds : rdsDdlDetectionQueue[m].state = "deleted")
          => schema = SingleApplication(ddlSourceBucket.doc))

\* The callback URL the patch is to leave: the one of the lower-case name.
PatchedUrls == <<CallbackUrl(LowerCase(appLoadBalancer.loadBalancerDnsName))>>

\* C12: a patch sets the client's callback URL to the one built from the
\* lower-case form of the load balancer's host name (ABC123... gives
\* abc123...), and a patch applied again leaves the client as it is.
C12_PatchIsLowerCaseAndIdempotent ==
  /\ [](/\ LowerCase(ExampleDnsName) = <<"a", "b", "1">>
        /\ PatchCallbackUrl(PatchCallbackUrl(client, appLoadBalancer.loadBalancerDnsName),
                            appLoadBalancer.loadBalancerDnsName)
             = PatchCallbackUrl(client, appLoadBalancer.loadBalancerDnsName)
        /\ callBackInit.patches > 0
             => /\ client.callbackUrls = PatchedUrls
                /\ \A i \in 1..Len(client.callbackUrls[1]) :
                     client.callbackUrls[1][i] \notin {"A", "B"})
  /\ [][callBackInit'.patches > callBackInit.patches
          => /\ client'.callbackUrls = PatchedUrls
             /\ callBackInit.patches > 0 => client' = client]_vars

\* The client of the load balancer ABC1... was patched twice.
C12_Witness ==
  /\ callBackInit.patches = 2
  /\ appLoadBalancer.loadBalancerDnsName = ExampleDnsName
  /\ client.callbackUrls = <<CallbackUrl(<<"a", "b", "1">>)>>

C14_CredentialsResolvedAtInvocation ==
  /\ [](\A fn \in DbClients : \A k \in DOMAIN Environment(fn) :
          Environment(fn)[k].kind # "secretValue")
  /\ [](\A fn \in DbClients :
          Allowed(fn, "secretsmanager:GetSecretValue", "rdsInstance.secret"))
  /\ [][\A fn \in DbClients :
          credentials'[fn] # credentials[fn] => credentials'[fn] = rdsSecret]_vars

\* A worker connected with the password of the second rotation.
C14_Witness ==
  /\ credentials["ddlDeployFn"].password = 3
  /\ credentials["ddlChangeFn"].password = 1
  /\ rdsSecret.password = 3

\* C16: the document of the DDL source is never changed by a request of a
\* DDL worker: the workers may read the bucket, and a write they attempt is
\* denied.
C16_WorkersNeverWriteSource ==
  /\ [][ddlSourceBucket' = ddlSourceBucket]_vars
  /\ [](s3Access.action \in S3Write => s3Access.result = "AccessDenied")
  /\ [](s3Access.action \in S3Read => s3Access.result = "OK")

\* The change worker tried to overwrite the document and was denied.
C16_Witness ==
  /\ s3Access = [fn |-> "ddlChangeFn", action |-> "s3:PutObject",
                 result |-> "AccessDenied"]
  /\ ddlSourceBucket.doc = ReadmeDDL

ToDatabase == {c \in connections : c.dst = "rdsInstance"}

\* C15 as stated: whoever is connected to the database is a member of the
\* Lambda, EC2 or ECS security group, uses port 5432, has no public address
\* and is not placed in a public subnet.
C15_OnlyPrivateHostsConnect ==
  \A c \in ToDatabase :
    /\ c.port = 5432
    /\ HostConfig(c.src).securityGroups \cap
         {"lambda-security-group", "ec2-security-group", "ecs-rag-sec-group"} # {}
    /\ ~HostConfig(c.src).publicIp
    /\ HostConfig(c.src).subnet # "public"

\* C15 as amended: the database has no public address and is placed in
\* private subnets; whoever is connected to it is inside the VPC, a member of
\* the Lambda, EC2 or ECS security group, and uses port 5432; the only such
\* host with a public address or in a public subnet is the test instance
\* ec2JumpHost.
C15_OnlyGroupMembersConnect ==
  /\ ~HostConfig("rdsInstance").publicIp
  /\ HostConfig("rdsInstance").subnet = "private"
  /\ \A c \in ToDatabase :
       /\ c.port = 5432
       /\ HostConfig(c.src).vpc
       /\ HostConfig(c.src).securityGroups \cap
            {"lambda-security-group", "ec2-security-group", "ecs-rag-sec-group"} # {}
       /\ (HostConfig(c.src).publicIp \/ HostConfig(c.src).subnet = "public")
            => c.src = "ec2JumpHost"

\* The test instance and a worker are connected to the database.
C15_Witness ==
  /\ [src |-> "ec2JumpHost", dst |-> "rdsInstance", port |-> 5432] \in connections
  /\ [src |-> "ddlDeployFn", dst |-> "rdsInstance", port |-> 5432] \in connections

\* C18: the load balancer has one listener, on port 443, whose default
\* action is authenticate-with-Cognito followed by forward; a request is
\* forwarded to the target group only after it came in on 443 and passed the
\* authentication action.
C18_ForwardedOnlyAfterAuthentication ==
  /\ \A l \in Listeners :
       l.port = 443 /\ l.defaultAction = <<"authenticate-cognito", "forward">>
  /\ Cardinality(Listeners) = 1
  /\ \A r \in RequestIds :
       requests[r].pc = "forwarded" =>
         requests[r].passed /\ requests[r].session /\ requests[r].port = 443

\* One request was forwarded after a login, another ended at the login.
C18_Witness ==
  \E r, q \in RequestIds :
    /\ requests[r].pc = "forwarded"
    /\ requests[q].pc = "rejected"

RegionAccepted ==
  env.region \in {Unset, "", "us-east-1", "us-west-2", "eu-west-2"}

NameGiven(name) == name # Unset /\ name # ""

\* C19: BaseInfraStack is constructed only if CDK_DEFAULT_REGION is unset,
\* empty or one of us-east-1, us-west-2, eu-west-2 and both names are defined
\* and not empty; otherwise the constructor throws the error of the first
\* check that fails, in the order region, certificate name, Cognito domain,
\* and then no stack at all is constructed or synthesized; BaseInfraStack is
\* the first stack of every app.
C19_ConstructionValidatesEnvironment ==
  /\ app.stacks # <<>> =>
       /\ app.stacks[1] = "BaseInfraStack"
       /\ RegionAccepted
       /\ NameGiven(env.certName)
       /\ NameGiven(env.cognitoDomain)
  /\ app.pc = "thrown" =>
       /\ app.stacks = <<>>
       /\ app.error =
            IF ~RegionAccepted
            THEN "Unsupported CDK_DEFAULT_REGION specified"
            ELSE IF ~NameGiven(env.certName)
            THEN "Please specify the IAM_SELF_SIGNED_SERVER_CERT_NAME env var"
            ELSE "Please specify the COGNITO_DOMAIN_NAME env var"
       /\ ~(RegionAccepted /\ NameGiven(env.certName) /\ NameGiven(env.cognitoDomain))
  /\ app.pc \in {"certName", "cognitoDomain"} => RegionAccepted
  /\ app.pc = "cognitoDomain" => NameGiven(env.certName)
  /\ app.pc = "synthesized" => Len(app.stacks) = Len(EntryPoint)

\* With no region and neither name, the constructor threw the error about
\* the certificate name.
C19_Witness ==
  /\ env = [region |-> Unset, certName |-> "", cognitoDomain |-> Unset]
  /\ app.pc = "thrown"
  /\ app.error = "Please specify the IAM_SELF_SIGNED_SERVER_CERT_NAME env var"

\* C20: an invocation of the queue consumer executes the statements of the
\* document one at a time in file order, starting with the first; a
\* statement that fails ends the invocation with a StatementError and leaves
\* the schema as it is, so that nothing after it is executed; an invocation
\* that has failed does nothing more, and the next delivery of the message
\* starts a new invocation that begins with the first statement again.
C20_FirstFailureAborts ==
  [][\A m \in MsgIds :
       LET w == initInv[m]
           w2 == initInv'[m]
           r == ExecStmt(schema, w.doc[w.idx])
       IN /\ (w.pc = "Apply" /\ (w2.pc # "Apply" \/ w2.idx # w.idx)) =>
               \/ /\ r.ok
                  /\ w2.idx = w.idx + 1
                  /\ w2.doc = w.doc
                  /\ w2.pc = IF w.idx = Len(w.doc) THEN "Acknowledge" ELSE "Apply"
                  /\ schema' = r.schema
               \/ /\ ~r.ok
                  /\ w2.pc = "Failed"
                  /\ w2.err = "StatementError"
                  /\ schema' = schema
               \/ /\ w2.pc = "Failed"
                  /\ w2.err = "Timeout"
                  /\ schema' = schema
          /\ (w2.pc = "Apply" /\ w.pc # "Apply") => w.pc = "Connect" /\ w2.idx = 1
          /\ (w.pc = "Failed" /\ w2 # w) =>
               /\ w2.pc = "Fetch"
               /\ rdsDdlDetectionQueue[m].state = "visible"
               /\ rdsDdlDetectionQueue'[m].state = "inflight"
               /\ schema' = schema
  ]_vars

\* The second delivery of a message is about to run the first statement
\* again, on the schema that the first delivery left behind.
C20_Witness ==
  \E m \in MsgIds :
    /\ rdsDdlDetectionQueue[m].receives = 2
    /\ initInv[m].pc = "Apply"
    /\ initInv[m].idx = 1
    /\ Len(initInv[m].doc) > 1
    /\ schema # {}

\* C21: every invocation of the queue consumer ends Done, with its message
\* deleted for good, or Failed; and a message that has been received the
\* maximum number of times without being acknowledged is not received again
\* but leaves the queue for a dead-letter path.
C21_BoundedReceivesThenDeadLetter ==
  /\ \A m \in MsgIds :
       Running(initInv[m]) ~> (initInv[m].pc \in {"Done", "Failed"})
  /\ [][\A m \in MsgIds :
          /\ initInv'[m].pc = "Done" => rdsDdlDetectionQueue'[m].state = "deleted"
          /\ rdsDdlDetectionQueue[m].state = "deleted" =>
               rdsDdlDetectionQueue'[m].state = "deleted"
          /\ (/\ rdsDdlDetectionQueue[m].receives = MaxReceives
              /\ rdsDdlDetectionQueue[m].state = "visible") =>
               rdsDdlDetectionQueue'[m].state # "inflight"]_vars

\* C22: for RDS_DDL_Detection_Queue with ddlDeployFn, PGVector_Update_Queue
\* with pgvectorUpdate and COG_APP_CLIENT_CREATE_QUEUE with callBackInit, the
\* visibility timeout of the queue is at least the timeout of the function;
\* a message is visible, and so received, only when no invocation that
\* received it is still running.
C22_VisibilityCoversConsumerTimeout ==
  /\ DOMAIN EventSources =
       {"RDS_DDL_Detection_Queue", "PGVector_Update_Queue", "COG_APP_CLIENT_CREATE_QUEUE"}
  /\ \A q \in DOMAIN EventSources :
       /\ EventSources[q].visibilityTimeout >= EventSources[q].timeout
       /\ consumer[q].state = "visible" => ~consumer[q].running
       /\ consumer[q].running =>
            consumer[q].elapsed + consumer[q].invis >= EventSources[q].timeout

\* The message of the update queue is visible for the second time after its
\* first invocation was terminated, and the callback worker is running.
C22_Witness ==
  /\ consumer["PGVector_Update_Queue"].state = "visible"
  /\ consumer["PGVector_Update_Queue"].receives = 1
  /\ consumer["COG_APP_CLIENT_CREATE_QUEUE"].running
  /\ consumer["RDS_DDL_Detection_Queue"].state = "inflight"

\* C23: in every order of creation that the dependencies permit, the
\* app-client queue and the CreateUserPoolClient rule exist before the user
\* pool and before the client, so that the creation event of the client is
\* never emitted while its rule does not exist.
C23_RuleExistsBeforeClient ==
  /\ [][\A r \in {"UserPool", "WebClient"} :
          (r \in created' /\ r \notin created) =>
            {"appClientCreateQueue", "appClientCreateRule"} \subseteq created]_vars
  /\ [](emitted # "missed")

\* The client is created and its event detected while the load balancer's
\* listener and the patch worker do not exist yet.
C23_Witness ==
  /\ "WebClient" \in created
  /\ emitted = "detected"
  /\ "callBackInit" \notin created
  /\ "httpsListener" \notin created

\* C24: a call that a patch worker makes matches neither the creation rule
\* nor the update rule, both of which match calls from
\* cloudformation.amazonaws.com only; so the patch workers are invoked at
\* most once per call of a deployment, and with no call left to route and
\* none to make nothing is left to do.
C24_PatchDoesNotTriggerItself ==
  /\ [](/\ \A r \in PatchRules :
             /\ "sourceIPAddress" \in DOMAIN r.pattern
             /\ r.pattern.sourceIPAddress = {"cloudformation.amazonaws.com"}
        /\ \A i \in 1..Len(patch.calls) :
             patch.calls[i].sourceIPAddress # "cloudformation.amazonaws.com"
               => PatchTargetsOf(patch.calls[i]) = {}
        /\ patch.invocations + patch.queued + patch.updates <= patch.made)
  /\ [][(patch.calls # <<>>
          /\ Head(patch.calls).sourceIPAddress # "cloudformation.amazonaws.com"
          /\ patch'.calls = Tail(patch.calls))
         => patch'.queued = patch.queued /\ patch'.updates = patch.updates]_vars

\* The workers have run for the calls of the deployments, their own calls
\* are routed, and nothing is left.
C24_Witness ==
  /\ patch.made = MaxCalls
  /\ patch.invocations = MaxCalls
  /\ patch.calls = <<>>
  /\ patch.queued = 0
  /\ patch.updates = 0

\* C25: the message of the database's creation is not lost although its
\* consumer is deployed later: once rdsStack is deployed the message is on
\* its way or on the queue until an invocation of the init worker succeeds
\* on it, the queue loses a message only to the init worker of a deployed
\* ddlAutomationStack, and whenever the init worker runs the DDL source
\* bucket holds its uploaded document, rdsStack and ddlSourceStack being
\* deployed before ddlAutomationStack.
C25_MessageWaitsForConsumer ==
  /\ [](/\ "rdsStack" \in rollout.deployed =>
             \/ rollout.pending + rollout.queue = 1
             \/ /\ rollout.pending + rollout.queue = 0
                /\ rollout.processed # <<>>
                /\ "ddlAutomationStack" \in rollout.deployed
        /\ \A i \in 1..Len(rollout.processed) : rollout.processed[i] = "uploaded"
        /\ "ddlAutomationStack" \in rollout.deployed =>
             {"rdsStack", "ddlSourceStack"} \subseteq rollout.deployed)
  /\ [][rollout'.queue < rollout.queue =>
          /\ "ddlAutomationStack" \in rollout.deployed
          /\ rollout.bucket = "uploaded"]_vars

\* The message waits on the queue while the bucket of ddlSourceStack is
\* still empty and the init worker is not deployed.
C25_Witness ==
  /\ rollout.queue = 1
  /\ rollout.bucket = "empty"
  /\ "ddlAutomationStack" \notin rollout.deployed

\* C26: the PDF processor can read the knowledgebase bucket only and write
\* the processed-text bucket only, the trigger function and the updater can
\* write neither bucket; the PDF processor is invoked for an object only by
\* its upload, never by what a function of the pipeline does, and one upload
\* causes one message at most: no invocation feeds the pipeline again.
C26_NoFeedbackLoop ==
  /\ [](/\ {b \in Buckets : \E a \in S3Read : MayAccess("pdfProcessorFn", a, b)}
             = {"knowledgeBase"}
        /\ {b \in Buckets : \E a \in S3Write : MayAccess("pdfProcessorFn", a, b)}
             = {"processedText"}
        /\ \A fn \in {"pgvectorTrigger", "pgvectorUpdate"}, b \in Buckets, a \in S3Write :
             ~MayAccess(fn, a, b)
        /\ \A k \in Docs : pushed[k] <= 1
        /\ \A e \in asyncEvents :
             /\ e.key \in knowledgeBase
             /\ e.fn = "pgvectorTrigger" => e.key \in processedText /\ pushed[e.key] = 0)
  /\ [][\A e \in asyncEvents' \ asyncEvents :
          e.fn = "pdfProcessorFn" => e.key \notin knowledgeBase]_vars

\* The three functions have run for a document, the last of them was
\* refused a write, and nothing is left to run.
C26_Witness ==
  /\ \E k \in Docs : \A fn \in PipelineFns : <<fn, k>> \in invoked
  /\ s3Access = [fn |-> "pgvectorUpdate", action |-> "s3:PutObject",
                 result |-> "AccessDenied"]
  /\ asyncEvents = {}
  /\ pgVectorUpdateQueue = <<>>

\* C27: the updater and the application are given the same collection name,
\* pgvector-collection-<region>-<account>, the same secret of database
\* credentials and the same name of the API-key secret; what the updater has
\* indexed is in the collection the application searches.
C27_WriterAndReaderAgree ==
  /\ [](/\ Settings("PGVectorUpdateStack", env) = Settings("RagStack", env)
        /\ Settings("RagStack", env).COLLECTION_NAME
             = <<"pgvector-collection",
                 IF env.region \in {Unset, ""} THEN "us-east-1" ELSE env.region,
                 "account">>
        /\ \A x \in vectorStore :
             /\ x.collection = Settings("RagStack", env).COLLECTION_NAME
             /\ x.db = Settings("RagStack", env).DB_CREDS
        /\ retrieved \subseteq {x.doc : x \in vectorStore})
  /\ [][retrieved' # retrieved => retrieved' = {x.doc : x \in vectorStore}]_vars

\* In eu-west-2 the application found the two documents that were indexed.
C27_Witness ==
  /\ env.region = "eu-west-2"
  /\ Cardinality(vectorStore) = 2
  /\ Cardinality(retrieved) = 2

============================================================================
